---- MODULE Spec2Model ----
(***************************************************************************)
(* Attendance bot: GPS validation with anti-fraud analysis                 *)
(* (gps-validation.js), employee state control (attendance-state-control)  *)
(* and the WhatsApp message handler (server), all in                       *)
(* src/backend/gps-validation.js.                                          *)
(*                                                                         *)
(* One employee is modelled; every per-user Map of the program is the      *)
(* value it holds for that employee.                                       *)
(*                                                                         *)
(* Numbers.  The clock `now` counts seconds; Date.now() is now * 1000.     *)
(* A coordinate is an integer number of 1e-7 degrees (a decimal with at    *)
(* most seven fractional digits), 0 standing for a falsy (absent or zero)  *)
(* coordinate.  NoValue stands for undefined / null of accuracy,           *)
(* timestamp, blockUntil and the like.                                     *)
(***************************************************************************)
EXTENDS Integers, Sequences, FiniteSets, TLC

NoValue == -1

\* ------------------------------------------------------------------------
\* Bounds of the model
\* ------------------------------------------------------------------------
MaxElapsed == 1800      \* seconds the clock may advance past its start
MaxReadings == 3        \* history entries up to which a location message is handled
MaxRecords == 3         \* attendance records up to which a location message is handled
MaxAnalysed == 4        \* history entries up to which the validation is called directly

\* ------------------------------------------------------------------------
\* Configuration (program constants)
\* ------------------------------------------------------------------------
MAX_AGE_MINUTES == 2
MIN_ACCURACY == 50
MAX_IDENTICAL_LOCATIONS == 3
MIN_GPS_VARIATION_E7 == 100            \* 0.00001 degrees, in 1e-7 degrees
SUSPICIOUS_PRECISION_DIGITS == 10
MAX_SPEED_BETWEEN_LOCATIONS == 100
EXPECTED_ACCURACY_RANGE == <<5, 100>>
SUSPICIOUS_ACCURACY_VALUES == {1, 2, 3}
MAX_WARNINGS_PER_USER == 5
BLOCK_DURATION_MINUTES == 30
MAX_HISTORY == 10
MAX_INCIDENTS == 20

WORK_DAY_START == 6
WORK_DAY_END == 22
MAX_WORK_HOURS == 12
MISSING_EXIT_THRESHOLD == 2
MAX_ENTRIES_PER_DAY == 3
MIN_TIME_BETWEEN_ACTIONS == 5
STATE_CACHE_DURATION == 60
PENDING_VALIDITY_MINUTES == 10

\* The configured zones, in list order.  lat/lng are the configured centres
\* rounded to 1e-7 degrees; distances to them come from DistanceTable, which
\* was evaluated on the configured (unrounded) centres.
AUTHORIZED_LOCATIONS ==
    << [id |-> 1, lat |-> -373716447, lng |-> -591167928, radius |-> 100],
       [id |-> 2, lat |-> -373724736, lng |-> -591156311, radius |-> 100],
       [id |-> 3, lat |-> -373388034, lng |-> -591316261, radius |-> 100],
       [id |-> 4, lat |-> -346898219, lng |-> -586141091, radius |-> 100] >>

\* ------------------------------------------------------------------------
\* Inputs: the coordinates a reading may carry
\* ------------------------------------------------------------------------
PA == <<-373716447, -591167928>>   \* centre of zone 1
PB == <<-373722421, -591160958>>   \* 91 m from zone 1, 48 m from zone 2
PC == <<-373720001, -591167928>>   \* 40 m from zone 1, "000" in the latitude
PF == <<-373916447, -591167928>>   \* 2224 m south of zone 1, in no zone
PD == <<-373707498, -591167928>>   \* 100 m north of zone 1: on its boundary
PE == <<-373707408, -591167928>>   \* 101 m north of zone 1, in no zone
Points == {PA, PB, PC, PF, PD, PE}

\* calculateDistance evaluated (haversine, R = 6371 km, Math.round) on the
\* coordinates of Points and on the zone centres; metres.
DistanceTable ==
    [p \in Points |->
        [zones |-> CASE p = PA -> <<0, 138, 3880, 301610>>
                     [] p = PB -> <<91, 48, 3964, 301666>>
                     [] p = PC -> <<40, 115, 3917, 301649>>
                     [] p = PF -> <<2224, 2134, 6020, 303808>>
                     [] p = PD -> <<100, 217, 3787, 301512>>
                     [] p = PE -> <<101, 218, 3786, 301511>>,
         points |-> CASE p = PA -> [q \in Points |->
                                     CASE q = PA -> 0 [] q = PB -> 91
                                       [] q = PC -> 40 [] q = PF -> 2224
                                       [] q = PD -> 100 [] q = PE -> 101]
                      [] p = PB -> [q \in Points |->
                                     CASE q = PA -> 91 [] q = PB -> 0
                                       [] q = PC -> 67 [] q = PF -> 2158
                                       [] q = PD -> 177 [] q = PE -> 178]
                      [] p = PC -> [q \in Points |->
                                     CASE q = PA -> 40 [] q = PB -> 67
                                       [] q = PC -> 0 [] q = PF -> 2184
                                       [] q = PD -> 139 [] q = PE -> 140]
                      [] p = PF -> [q \in Points |->
                                     CASE q = PA -> 2224 [] q = PB -> 2158
                                       [] q = PC -> 2184 [] q = PF -> 0
                                       [] q = PD -> 2323 [] q = PE -> 2324]
                      [] p = PD -> [q \in Points |->
                                     CASE q = PA -> 100 [] q = PB -> 177
                                       [] q = PC -> 139 [] q = PF -> 2323
                                       [] q = PD -> 0 [] q = PE -> 1]
                      [] p = PE -> [q \in Points |->
                                     CASE q = PA -> 101 [] q = PB -> 178
                                       [] q = PC -> 140 [] q = PF -> 2324
                                       [] q = PD -> 1 [] q = PE -> 0]]]

\* calculateDistance between two reading coordinates.
calculateDistance(lat1, lng1, lat2, lng2) ==
    DistanceTable[<<lat1, lng1>>].points[<<lat2, lng2>>]

\* calculateDistance from a reading coordinate to the i-th configured zone.
ZoneDistance(lat, lng, i) == DistanceTable[<<lat, lng>>].zones[i]

\* ------------------------------------------------------------------------
\* Basic validation (gps-validation.js)
\* ------------------------------------------------------------------------
Truthy(x) == x # NoValue /\ x # 0

\* Variant: the nearest zone wins, not the first one in list order.
isLocationAuthorized_Nearest(userLat, userLng) ==
    LET n == Len(AUTHORIZED_LOCATIONS)
        d(i) == ZoneDistance(userLat, userLng, i)
        closest == CHOOSE i \in 1..n :
                      /\ \A j \in 1..n : d(i) <= d(j)
                      /\ \A j \in 1..(i-1) : d(j) > d(i)
    IN  IF d(closest) <= AUTHORIZED_LOCATIONS[closest].radius
        THEN [isValid |-> TRUE, location |-> AUTHORIZED_LOCATIONS[closest].id,
              distance |-> d(closest), closestLocation |-> NoValue]
        ELSE [isValid |-> FALSE, location |-> NoValue,
              distance |-> d(closest),
              closestLocation |-> AUTHORIZED_LOCATIONS[closest].id]

\* isLocationAuthorized: the first zone, in list order, whose distance is
\* within its own radius; otherwise the first zone at minimal distance.
isLocationAuthorized(userLat, userLng) ==
    LET n == Len(AUTHORIZED_LOCATIONS)
        d(i) == ZoneDistance(userLat, userLng, i)
        inside == {i \in 1..n : d(i) <= AUTHORIZED_LOCATIONS[i].radius}
        first == CHOOSE i \in inside : \A j \in inside : i <= j
        closest == CHOOSE i \in 1..n :
                      /\ \A j \in 1..n : d(i) <= d(j)
                      /\ \A j \in 1..(i-1) : d(j) > d(i)
    IN  IF inside # {}
        THEN [isValid |-> TRUE, location |-> AUTHORIZED_LOCATIONS[first].id,
              distance |-> d(first), closestLocation |-> NoValue]
        ELSE [isValid |-> FALSE, location |-> NoValue,
              distance |-> d(closest),
              closestLocation |-> AUTHORIZED_LOCATIONS[closest].id]

\* Variant: the age limit taken in hours.
isLocationTimestampValid_Hours(timestamp, now) ==
    ~ ((now * 1000 - timestamp * 1000) > MAX_AGE_MINUTES * 3600000)

\* isLocationTimestampValid: timestamp in epoch seconds; the age
\* (Date.now() - timestamp * 1000) / 60000 must not exceed MAX_AGE_MINUTES.
isLocationTimestampValid(timestamp, now) ==
    ~ ((now * 1000 - timestamp * 1000) > MAX_AGE_MINUTES * 60000)

\* isLocationAccuracyValid
isLocationAccuracyValid(accuracy) ==
    ~ (~Truthy(accuracy) \/ accuracy > MIN_ACCURACY)

\* validateGPSLocation: coordinates, then timestamp (when given), then
\* accuracy (when not undefined), then the geofence.
validateGPSLocation(loc, now) ==
    LET none == [isValid |-> FALSE, reasons |-> <<>>, location |-> NoValue,
                 distance |-> NoValue, closestLocation |-> NoValue]
        auth == isLocationAuthorized(loc.latitude, loc.longitude)
    IN  IF ~Truthy(loc.latitude) \/ ~Truthy(loc.longitude)
        THEN [none EXCEPT !.reasons = <<"MISSING_COORDINATES">>]
        ELSE IF Truthy(loc.timestamp) /\ ~isLocationTimestampValid(loc.timestamp, now)
        THEN [none EXCEPT !.reasons = <<"STALE_LOCATION">>]
        ELSE IF loc.accuracy # NoValue /\ ~isLocationAccuracyValid(loc.accuracy)
        THEN [none EXCEPT !.reasons = <<"INSUFFICIENT_ACCURACY">>]
        ELSE IF ~auth.isValid
        THEN [none EXCEPT !.reasons = <<"NOT_AUTHORIZED">>,
                          !.distance = auth.distance,
                          !.closestLocation = auth.closestLocation]
        ELSE [none EXCEPT !.isValid = TRUE,
                          !.location = auth.location,
                          !.distance = auth.distance,
                          !.reasons = <<"ZONE_OK">>]

\* ------------------------------------------------------------------------
\* Anti-fraud analysers
\* ------------------------------------------------------------------------
Flag(t, s) == [type |-> t, severity |-> s]

RECURSIVE DigitsOf(_)
\* decimal digits of a natural number, most significant first
DigitsOf(n) ==
    IF n < 10 THEN <<n>> ELSE Append(DigitsOf(n \div 10), n % 10)

RECURSIVE StripZeros(_)
\* a digit sequence without its trailing zeros
StripZeros(ds) ==
    IF ds # <<>> /\ ds[Len(ds)] = 0
    THEN StripZeros(SubSeq(ds, 1, Len(ds) - 1)) ELSE ds

\* Number.prototype.toString of the coordinate v / 1e7: the integer part and
\* the fractional digits (no trailing zeros; none at all for an integer).
ToStringParts(v) ==
    LET a == IF v < 0 THEN -v ELSE v
        fp == a % 10000000
        pad == [i \in 1..(7 - Len(DigitsOf(fp))) |-> 0]
    IN  [int |-> DigitsOf(a \div 10000000),
         frac |-> StripZeros(pad \o DigitsOf(fp))]

\* /0{3,}/ on a run of digits
HasZeroRun(ds) ==
    \E i \in 1..(Len(ds) - 2) : ds[i] = 0 /\ ds[i+1] = 0 /\ ds[i+2] = 0

\* str.endsWith('.000000')
EndsWithDotZeros(parts) ==
    /\ Len(parts.frac) = 6
    /\ \A i \in 1..6 : parts.frac[i] = 0

\* detectPerfectCoordinates
detectPerfectCoordinates(lat, lng) ==
    LET latStr == ToStringParts(lat)
        lngStr == ToStringParts(lng)
        zeros(s) == HasZeroRun(s.int) \/ HasZeroRun(s.frac)
        f1 == IF zeros(latStr) \/ zeros(lngStr)
              THEN <<Flag("PERFECT_COORDINATES", "HIGH")>> ELSE <<>>
        f2 == IF Len(latStr.frac) > SUSPICIOUS_PRECISION_DIGITS
                 \/ Len(lngStr.frac) > SUSPICIOUS_PRECISION_DIGITS
              THEN <<Flag("EXCESSIVE_PRECISION", "MEDIUM")>> ELSE <<>>
        f3 == IF EndsWithDotZeros(latStr) \/ EndsWithDotZeros(lngStr)
              THEN <<Flag("ROUNDED_COORDINATES", "HIGH")>> ELSE <<>>
    IN  f1 \o f2 \o f3

\* validateGPSMetadata
validateGPSMetadata(accuracy, timestamp) ==
    LET f1 == IF Truthy(accuracy) /\ accuracy \in SUSPICIOUS_ACCURACY_VALUES
              THEN <<Flag("SUSPICIOUS_ACCURACY", "MEDIUM")>> ELSE <<>>
        f2 == IF ~Truthy(timestamp)
              THEN <<Flag("MISSING_TIMESTAMP", "HIGH")>> ELSE <<>>
        f3 == IF Truthy(accuracy) /\ (accuracy < EXPECTED_ACCURACY_RANGE[1]
                                      \/ accuracy > EXPECTED_ACCURACY_RANGE[2])
              THEN <<Flag("ABNORMAL_ACCURACY", "LOW")>> ELSE <<>>
    IN  f1 \o f2 \o f3

Abs(x) == IF x < 0 THEN -x ELSE x

RECURSIVE IdenticalCount(_, _)
\* entries before position i + 1 that, scanning backwards from i, repeat the
\* coordinates of the last entry
IdenticalCount(h, i) ==
    IF i >= 1 /\ h[Len(h)].lat = h[i].lat /\ h[Len(h)].lng = h[i].lng
    THEN 1 + IdenticalCount(h, i - 1) ELSE 0

\* Variant: the limit must be exceeded, not reached.
TooManyIdentical_Strict(identicalCount) == identicalCount > MAX_IDENTICAL_LOCATIONS

\* The number of identical preceding entries that raises the flag.
TooManyIdentical(identicalCount) == identicalCount >= MAX_IDENTICAL_LOCATIONS

\* Variant: at the limit the entry just pushed is dropped, not the oldest.
TrimHistory_DropsNewest(pushed) ==
    IF Len(pushed) > MAX_HISTORY THEN SubSeq(pushed, 1, MAX_HISTORY) ELSE pushed

\* if (history.length > 10) history.shift()
TrimHistory(pushed) ==
    IF Len(pushed) > MAX_HISTORY THEN Tail(pushed) ELSE pushed

\* analyzeLocationHistory: push the reading (timestamp || Date.now()), keep
\* the last 10, then the three analyses on the updated history.
analyzeLocationHistory(history, currentLat, currentLng, timestamp, now) ==
    LET pushed == Append(history,
                     [lat |-> currentLat, lng |-> currentLng,
                      timestamp |-> IF Truthy(timestamp) THEN timestamp
                                    ELSE now * 1000])
        h == TrimHistory(pushed)
        n == Len(h)
        f1 == IF n >= 2 /\ TooManyIdentical(IdenticalCount(h, n - 1))
              THEN <<Flag("IDENTICAL_LOCATIONS", "HIGH")>> ELSE <<>>
        \* |dlat| + |dlng| summed over the last two steps, below 0.00001
        step(i) == Abs(h[i].lat - h[i-1].lat) + Abs(h[i].lng - h[i-1].lng)
        f2 == IF n >= 3 /\ step(n) < MIN_GPS_VARIATION_E7
                        /\ step(n-1) < MIN_GPS_VARIATION_E7
                        /\ step(n) + step(n-1) < MIN_GPS_VARIATION_E7
              THEN <<Flag("LOW_GPS_VARIATION", "MEDIUM")>> ELSE <<>>
        \* speedKmH = (distance / 1000) / (timeDiff / 3600) with
        \* timeDiff = (current.timestamp - previous.timestamp) / 1000:
        \* above 100 iff distance * 3600 > 100 * the raw timestamp difference
        \* (Infinity when the difference is 0, negative when it is below 0)
        distance == calculateDistance(h[n-1].lat, h[n-1].lng, h[n].lat, h[n].lng)
        diff == h[n].timestamp - h[n-1].timestamp
        fast == IF diff < 0 THEN FALSE
                ELSE IF diff = 0 THEN distance > 0
                ELSE diff <= (distance * 3600 - 1) \div MAX_SPEED_BETWEEN_LOCATIONS
        f3 == IF n >= 2 /\ fast /\ distance > 1000
              THEN <<Flag("IMPOSSIBLE_SPEED", "HIGH")>> ELSE <<>>
    IN  [history |-> h, suspiciousFlags |-> f1 \o f2 \o f3]

\* ------------------------------------------------------------------------
\* Suspicious users and the advanced validation
\* ------------------------------------------------------------------------
HighFlags(flags) == SelectSeq(flags, LAMBDA f : f.severity = "HIGH")
MediumFlags(flags) == SelectSeq(flags, LAMBDA f : f.severity = "MEDIUM")

\* The entry suspiciousActivityLog.set creates for a user seen first.
NewUserLog ==
    [present |-> TRUE, warnings |-> 0, lastWarning |-> NoValue,
     isBlocked |-> FALSE, blockUntil |-> NoValue, incidents |-> <<>>]

\* suspiciousActivityLog without an entry for the user.
NoUserLog == [NewUserLog EXCEPT !.present = FALSE]

\* Variant: the warnings compared with the wrong configuration value.
WarningLimitReached_WrongConstant(warnings) == warnings >= BLOCK_DURATION_MINUTES

\* The warning limit that blocks a user.
WarningLimitReached(warnings) == warnings >= MAX_WARNINGS_PER_USER

\* Variant: a block is never taken as active.
ActiveBlock_Never(userLog, nowMs) == FALSE

\* Variant: the comparison with the clock inverted.
ActiveBlock_Inverted(userLog, nowMs) == userLog.isBlocked /\ userLog.blockUntil < nowMs

\* A block that still holds at nowMs.
ActiveBlock(userLog, nowMs) == userLog.isBlocked /\ userLog.blockUntil > nowMs

\* Variant: a block ending exactly now is not yet lifted.
ExpiredBlock_Strict(userLog, nowMs) == userLog.isBlocked /\ userLog.blockUntil < nowMs

\* A block that has run out at nowMs.
ExpiredBlock(userLog, nowMs) == userLog.isBlocked /\ userLog.blockUntil <= nowMs

\* manageSuspiciousUser: the active block, the expired block, the HIGH flags
\* of this call, the block at the warning limit.
manageSuspiciousUser(log, suspiciousFlags, now) ==
    LET userLog == IF log.present THEN log ELSE NewUserLog
        nowMs == now * 1000
        unblocked == IF ExpiredBlock(userLog, nowMs)
                     THEN [userLog EXCEPT !.isBlocked = FALSE,
                                          !.blockUntil = NoValue,
                                          !.warnings = 0]
                     ELSE userLog
        high == HighFlags(suspiciousFlags)
        pushed == Append(unblocked.incidents,
                         [timestamp |-> nowMs, flags |-> suspiciousFlags])
        warned == [unblocked EXCEPT
                     !.warnings = @ + Len(high),
                     !.lastWarning = nowMs,
                     !.incidents = IF Len(pushed) > MAX_INCIDENTS
                                   THEN Tail(pushed) ELSE pushed]
    IN  IF ActiveBlock(userLog, nowMs)
        THEN [log |-> userLog, isBlocked |-> TRUE, message |-> "BLOCKED_ACTIVE"]
        ELSE IF Len(high) > 0
        THEN IF WarningLimitReached(warned.warnings)
             THEN [log |-> [warned EXCEPT
                              !.isBlocked = TRUE,
                              !.blockUntil = nowMs + BLOCK_DURATION_MINUTES * 60 * 1000],
                   isBlocked |-> TRUE, message |-> "BLOCKED_NOW"]
             ELSE [log |-> warned, isBlocked |-> FALSE, message |-> "NONE"]
        ELSE [log |-> unblocked, isBlocked |-> FALSE, message |-> "NONE"]

\* Variant: two MEDIUM flags do not make the risk MEDIUM.
FraudRiskOf_HighFlagsOnly(flags) ==
    IF Len(HighFlags(flags)) >= 2 THEN "HIGH"
    ELSE IF Len(HighFlags(flags)) >= 1 THEN "MEDIUM"
    ELSE "LOW"

\* Step 6 of validateGPSLocationAdvanced: the risk level of a flag list.
FraudRiskOf(flags) ==
    IF Len(HighFlags(flags)) >= 2 THEN "HIGH"
    ELSE IF Len(HighFlags(flags)) >= 1 \/ Len(MediumFlags(flags)) >= 2 THEN "MEDIUM"
    ELSE "LOW"

\* Variant: the flags are handed over at risk MEDIUM too.
ManagesFlags_FromMedium(fraudRisk) == fraudRisk = "HIGH" \/ fraudRisk = "MEDIUM"

\* Step 7: the flags are handed to manageSuspiciousUser only at risk HIGH.
ManagesFlags(fraudRisk) == fraudRisk = "HIGH"

\* Variant: the fraud risk left out of the verdict.
CombinedValid_IgnoresRisk(originalValid, fraudRisk) == originalValid

\* Steps 9 and 11: the combined verdict.
CombinedValid(originalValid, fraudRisk) ==
    /\ originalValid
    /\ fraudRisk # "HIGH" /\ fraudRisk # "BLOCKED"

\* validateGPSLocationAdvanced: the verdict and the fraud state it leaves.
validateGPSLocationAdvanced(loc, log, history, now) ==
    LET empty == [isValid |-> FALSE, reasons |-> <<>>, suspiciousFlags |-> <<>>,
                  fraudRisk |-> "LOW", location |-> NoValue, distance |-> NoValue]
        userStatus == manageSuspiciousUser(log, <<>>, now)
        perfectCoordFlags == detectPerfectCoordinates(loc.latitude, loc.longitude)
        metadataFlags == validateGPSMetadata(loc.accuracy, loc.timestamp)
        historyAnalysis == analyzeLocationHistory(history, loc.latitude,
                                                  loc.longitude, loc.timestamp, now)
        flags == perfectCoordFlags \o metadataFlags \o historyAnalysis.suspiciousFlags
        risk == FraudRiskOf(flags)
        userManagement == manageSuspiciousUser(userStatus.log, flags, now)
        originalValidation == validateGPSLocation(loc, now)
        valid == CombinedValid(originalValidation.isValid, risk)
    IN  IF userStatus.isBlocked
        THEN [result |-> [empty EXCEPT !.fraudRisk = "BLOCKED",
                                       !.reasons = <<userStatus.message>>],
              log |-> userStatus.log, history |-> history]
        ELSE IF ~Truthy(loc.latitude) \/ ~Truthy(loc.longitude)
        THEN [result |-> [empty EXCEPT !.reasons = <<"MISSING_COORDINATES">>],
              log |-> userStatus.log, history |-> history]
        ELSE IF ManagesFlags(risk) /\ userManagement.isBlocked
        THEN [result |-> [empty EXCEPT !.suspiciousFlags = flags,
                                       !.fraudRisk = "BLOCKED",
                                       !.reasons = <<userManagement.message>>],
              log |-> userManagement.log, history |-> historyAnalysis.history]
        ELSE [result |-> [isValid |-> valid,
                          reasons |-> originalValidation.reasons \o
                                      (IF risk = "HIGH" THEN <<"FRAUD_HIGH">> ELSE <<>>),
                          suspiciousFlags |-> flags,
                          fraudRisk |-> risk,
                          location |-> originalValidation.location,
                          distance |-> originalValidation.distance],
              log |-> IF ManagesFlags(risk) THEN userManagement.log ELSE userStatus.log,
              history |-> historyAnalysis.history]

\* ------------------------------------------------------------------------
\* Attendance records (table attendance_records)
\* ------------------------------------------------------------------------
\* Variant: the zone of the verdict is written whatever the verdict.
AttendanceRow_KeepsZone(action, validationResult, now) ==
    [action_type |-> action,
     location_name |-> validationResult.location,
     distance_from_point |-> validationResult.distance,
     validation_status |-> IF validationResult.isValid THEN "VALID" ELSE "INVALID",
     timestamp |-> now]

\* Variant: every row is written as VALID.
AttendanceRow_AlwaysValid(action, validationResult, now) ==
    [action_type |-> action,
     location_name |-> IF validationResult.isValid
                       THEN validationResult.location ELSE NoValue,
     distance_from_point |-> validationResult.distance,
     validation_status |-> "VALID",
     timestamp |-> now]

\* The row saveAttendanceRecord inserts; timestamp is NOW(), in seconds.
AttendanceRow(action, validationResult, now) ==
    [action_type |-> action,
     location_name |-> IF validationResult.isValid
                       THEN validationResult.location ELSE NoValue,
     distance_from_point |-> validationResult.distance,
     validation_status |-> IF validationResult.isValid THEN "VALID" ELSE "INVALID",
     timestamp |-> now]

\* Variant: the insert is never executed.
saveAttendanceRecord_Lost(records, action, validationResult, now, dbOk) == records

\* Variant: the row is there although the insert failed.
saveAttendanceRecord_IgnoresFailure(records, action, validationResult, now, dbOk) ==
    Append(records, AttendanceRow(action, validationResult, now))

\* saveAttendanceRecord: the table after the call; nothing is inserted when
\* the connection is unavailable or the query fails.
saveAttendanceRecord(records, action, validationResult, now, dbOk) ==
    IF dbOk THEN Append(records, AttendanceRow(action, validationResult, now))
    ELSE records

DayOf(t) == t \div 86400
HourOf(t) == (t \div 3600) % 24

\* getLastAttendanceRecord: ORDER BY timestamp DESC LIMIT 1 (rows are kept in
\* insertion order, which is timestamp order); null when there is no row or
\* the read fails.
NoRow ==
    [action_type |-> "none", location_name |-> NoValue,
     distance_from_point |-> NoValue, validation_status |-> "NONE",
     timestamp |-> NoValue]

getLastAttendanceRecord(records, readOk) ==
    IF readOk /\ records # <<>> THEN records[Len(records)] ELSE NoRow

\* getTodayAttendanceRecords: DATE(timestamp) = CURDATE(); empty when the
\* read fails.
getTodayAttendanceRecords(records, now, readOk) ==
    IF readOk
    THEN SelectSeq(records, LAMBDA r : DayOf(r.timestamp) = DayOf(now))
    ELSE <<>>

\* ------------------------------------------------------------------------
\* Employee state control (attendance-state-control)
\* ------------------------------------------------------------------------
\* employeeSessions without / with a fresh entry for the employee.  Of a
\* session only the pending fields are read by any decision.
NewSession ==
    [present |-> TRUE, pendingAction |-> "none", pendingActionTime |-> NoValue]

NoSession == [NewSession EXCEPT !.present = FALSE]

getOrCreateEmployeeSession(session) ==
    IF session.present THEN session ELSE NewSession

\* employeeStates without an entry for the employee.
NoState ==
    [present |-> FALSE, currentStatus |-> "OUT", lastAction |-> "none",
     lastActionTime |-> NoValue, todayEntries |-> 0, todayExits |-> 0,
     workingSeconds |-> 0, canEnter |-> FALSE, canExit |-> FALSE,
     warnings |-> <<>>, missingExit |-> FALSE, isWorkingHours |-> FALSE,
     pendingAction |-> "none", cacheTime |-> NoValue]

\* The record the status is derived from: the last record, of any
\* validation status.
StatusRecord(records, readOk) == getLastAttendanceRecord(records, readOk)

\* Variant: every hour counts as working time.
isWorkingHours_Always(currentHour) == TRUE

\* state.isWorkingHours: the hour lies in the work-day window, ends included.
isWorkingHours(currentHour) ==
    currentHour >= WORK_DAY_START /\ currentHour <= WORK_DAY_END

\* Variant: the entry that reaches the cap is still allowed.
EntriesBelowCap_Inclusive(entries) == entries <= MAX_ENTRIES_PER_DAY

\* validEntries.length < MAX_ENTRIES_PER_DAY
EntriesBelowCap(entries) == entries < MAX_ENTRIES_PER_DAY

\* The state getEmployeeCurrentState computes from the records, the session
\* and the clock (workingHours is kept in seconds).
ComputeState(session, records, now, lastOk, todayOk) ==
    LET lastRecord == StatusRecord(records, lastOk)
        todayRecords == getTodayAttendanceRecords(records, now, todayOk)
        currentHour == HourOf(now)
        validEntries == SelectSeq(todayRecords, LAMBDA r :
                           r.action_type = "entrada" /\ r.validation_status = "VALID")
        validExits == SelectSeq(todayRecords, LAMBDA r :
                           r.action_type = "salida" /\ r.validation_status = "VALID")
        hasPending == session.pendingAction # "none" /\ Truthy(session.pendingActionTime)
        pendingLive == hasPending /\
                       (now * 1000 - session.pendingActionTime)
                          < PENDING_VALIDITY_MINUTES * 60000
        pending == IF pendingLive THEN session.pendingAction ELSE "none"
        hasLast == lastRecord.validation_status = "VALID"
        since == now - lastRecord.timestamp
        status == IF hasLast /\ lastRecord.action_type = "entrada" THEN "IN" ELSE "OUT"
        missing == /\ status = "IN"
                   /\ currentHour > WORK_DAY_END
                   /\ since > MISSING_EXIT_THRESHOLD * 3600
        working == isWorkingHours(currentHour)
    IN  [present |-> TRUE,
         currentStatus |-> status,
         lastAction |-> IF hasLast THEN lastRecord.action_type ELSE "none",
         lastActionTime |-> IF hasLast THEN lastRecord.timestamp ELSE NoValue,
         todayEntries |-> Len(validEntries),
         todayExits |-> Len(validExits),
         workingSeconds |-> IF status = "IN" THEN since ELSE 0,
         canEnter |-> /\ status = "OUT"
                      /\ EntriesBelowCap(Len(validEntries))
                      /\ working
                      /\ pending = "none",
         canExit |-> status = "IN" /\ pending = "none",
         warnings |-> (IF pendingLive THEN <<"PENDING_ACTION">> ELSE <<>>)
                      \o (IF missing THEN <<"MISSING_EXIT">> ELSE <<>>)
                      \o (IF status = "IN" /\ since > MAX_WORK_HOURS * 3600
                          THEN <<"EXCESSIVE_HOURS">> ELSE <<>>)
                      \o (IF hasLast /\ since < MIN_TIME_BETWEEN_ACTIONS * 60
                          THEN <<"MIN_GAP">> ELSE <<>>),
         missingExit |-> missing,
         isWorkingHours |-> working,
         pendingAction |-> pending,
         cacheTime |-> now * 1000]

\* getEmployeeCurrentState: the cached state while it is fresh and no refresh
\* is forced; otherwise the computed state, which is cached; an expired
\* pending action of the session is cleared on the way.
getEmployeeCurrentState(session, cached, records, now, forceRefresh, lastOk, todayOk) ==
    LET s == getOrCreateEmployeeSession(session)
        fresh == /\ ~forceRefresh
                 /\ cached.present
                 /\ Truthy(cached.cacheTime)
                 /\ (now * 1000 - cached.cacheTime) < STATE_CACHE_DURATION * 60000
        state == ComputeState(s, records, now, lastOk, todayOk)
        expired == /\ s.pendingAction # "none" /\ Truthy(s.pendingActionTime)
                   /\ state.pendingAction = "none"
    IN  IF fresh
        THEN [state |-> cached, session |-> s, cached |-> cached]
        ELSE [state |-> state,
              session |-> IF expired THEN NewSession ELSE s,
              cached |-> state]

\* Variant: the cached state survives the marking.
setPendingAction_KeepsCache(session, cached, action, now) ==
    [session |-> [getOrCreateEmployeeSession(session) EXCEPT
                    !.pendingAction = action,
                    !.pendingActionTime = now * 1000],
     cached |-> cached]

\* setPendingAction: the session carries the action and the time of marking;
\* the cached state of the employee is deleted.
setPendingAction(session, cached, action, now) ==
    [session |-> [getOrCreateEmployeeSession(session) EXCEPT
                    !.pendingAction = action,
                    !.pendingActionTime = now * 1000],
     cached |-> NoState]

\* clearPendingAction: the pending fields of the session are reset and the
\* cached state is deleted; the action that was pending is returned.
clearPendingAction(session, cached) ==
    [session |-> [getOrCreateEmployeeSession(session) EXCEPT
                    !.pendingAction = "none",
                    !.pendingActionTime = NoValue],
     cached |-> NoState,
     hadPending |-> getOrCreateEmployeeSession(session).pendingAction]

\* The warning validateAttendanceAction looks for
\* (w.includes('minutos desde última acción')).
IsGapWarning(w) == w = "MIN_GAP"

\* The pending action validateAttendanceAction checks a request against: the
\* one of the computed state, that is, of the session.
ConflictingPending(employeeState, requestedAction) ==
    /\ employeeState.pendingAction # "none"
    /\ employeeState.pendingAction # requestedAction

\* validateAttendanceAction on a computed state.  threw: the call ends in a
\* TypeError (lastActionTime.toLocaleTimeString() on null).
DecideAttendanceAction(employeeState, requestedAction) ==
    LET deny(r) == [isAllowed |-> FALSE, reason |-> r, threw |-> FALSE]
        allow(r) == [isAllowed |-> TRUE, reason |-> r, threw |-> FALSE]
        throw == [isAllowed |-> FALSE, reason |-> "NONE", threw |-> TRUE]
        gap == \E i \in 1..Len(employeeState.warnings) :
                  IsGapWarning(employeeState.warnings[i])
    IN  IF ConflictingPending(employeeState, requestedAction)
        THEN deny("PENDING_CONFLICT")
        ELSE IF requestedAction = "entrada"
        THEN IF ~employeeState.isWorkingHours THEN deny("OUTSIDE_WORK_HOURS")
             ELSE IF employeeState.currentStatus = "IN"
             THEN IF employeeState.lastActionTime = NoValue THEN throw
                  ELSE deny("ALREADY_IN")
             ELSE IF employeeState.todayEntries >= MAX_ENTRIES_PER_DAY
             THEN deny("DAILY_LIMIT")
             ELSE IF gap THEN deny("MIN_GAP")
             ELSE allow("ENTRADA_OK")
        ELSE IF requestedAction = "salida"
        THEN IF employeeState.currentStatus = "OUT"
             THEN IF employeeState.todayExits = 0 THEN deny("NO_ENTRY")
                  ELSE IF employeeState.lastActionTime = NoValue THEN throw
                  ELSE deny("ALREADY_OUT")
             ELSE IF gap THEN deny("MIN_GAP")
             ELSE allow("SALIDA_OK")
        ELSE deny("NONE")

\* validateAttendanceAction: a forced state refresh, then the decision.
validateAttendanceAction(session, cached, records, now, requestedAction, lastOk, todayOk) ==
    LET got == getEmployeeCurrentState(session, cached, records, now, TRUE, lastOk, todayOk)
    IN  [validation |-> DecideAttendanceAction(got.state, requestedAction),
         employeeState |-> got.state,
         session |-> got.session,
         cached |-> got.cached]

\* ------------------------------------------------------------------------
\* The message handler (server): state
\* ------------------------------------------------------------------------
VARIABLES
    now,                        \* the clock, in seconds
    userLocationHistory,        \* the employee's location history
    suspiciousActivityLog,      \* the employee's fraud record
    employeeSessions,           \* the employee's session
    employeeStates,             \* the employee's cached state
    pendingAttendanceRequests,  \* "none", or the action awaiting a location
    attendance_records,         \* the rows of attendance_records
    evt,                        \* the event handled last and what it produced
    inFlight                    \* the handler runs begun and not yet finished

vars == <<now, userLocationHistory, suspiciousActivityLog, employeeSessions,
          employeeStates, pendingAttendanceRequests, attendance_records, evt,
          inFlight>>

StartTimes == {3 * 3600, 9 * 3600}
\* Start times half an hour before each end of the work-day window, and
\* the night hour: the clock then crosses 5 -> 6 and 22 -> 23.
BoundaryStartTimes == {3 * 3600, 5 * 3600 + 1800, 22 * 3600 + 1800}
TickSteps == {1800}

Reading(p, a, ts) ==
    [latitude |-> p[1], longitude |-> p[2], accuracy |-> a, timestamp |-> ts]

\* The readings handed to validateGPSLocationAdvanced at time t: fresh and
\* accurate, in a zone and outside; three minutes old; without timestamp;
\* with an accuracy of 3 m, of 60 m, without accuracy; without coordinates.
Readings(t) ==
    { Reading(PA, 10, t), Reading(PC, 10, t), Reading(PF, 10, t),
      Reading(PA, 10, t - 180),
      Reading(PA, 10, NoValue), Reading(PC, 10, NoValue),
      Reading(PA, 3, t), Reading(PA, 60, t), Reading(PA, NoValue, t),
      Reading(<<0, 0>>, 10, t) }

\* The readings a location message carries at time t: in a zone, fresh and
\* accurate; outside every zone; raising two HIGH flags.
MessageReadings(t) ==
    { Reading(PA, 10, t), Reading(PF, 10, t), Reading(PC, 10, NoValue) }

NoReading ==
    [latitude |-> 0, longitude |-> 0, accuracy |-> NoValue, timestamp |-> NoValue]

NoResult ==
    [isValid |-> FALSE, reasons |-> <<>>, suspiciousFlags |-> <<>>,
     fraudRisk |-> "NONE", location |-> NoValue, distance |-> NoValue]

NoValidation == [isAllowed |-> FALSE, reason |-> "NONE", threw |-> FALSE]

\* What a location message, an entrada / salida command or a direct call of
\* the validation leaves for inspection: its kind, the pending request and
\* the block flag it found, the reading and verdict, the decision of the
\* command, the calls of saveAttendanceRecord with the row handed over,
\* whether the store worked, the reply.
Event(type) ==
    [type |-> type, pendingBefore |-> pendingAttendanceRequests,
     wasBlocked |-> suspiciousActivityLog.isBlocked,
     reading |-> NoReading, result |-> NoResult, validation |-> NoValidation,
     saveCalls |-> 0, row |-> NoRow, dbOk |-> TRUE, reply |-> "NONE"]

\* What every other event leaves.
Idle ==
    [type |-> "idle", pendingBefore |-> "none", wasBlocked |-> FALSE,
     reading |-> NoReading, result |-> NoResult, validation |-> NoValidation,
     saveCalls |-> 0, row |-> NoRow, dbOk |-> TRUE, reply |-> "NONE"]

Init ==
    /\ now \in StartTimes
    /\ userLocationHistory = <<>>
    /\ suspiciousActivityLog = NoUserLog
    /\ employeeSessions = NoSession
    /\ employeeStates = NoState
    /\ pendingAttendanceRequests = "none"
    /\ attendance_records = <<>>
    /\ evt = Idle
    /\ inFlight = <<>>

\* ------------------------------------------------------------------------
\* The message handler: one action per kind of message
\* ------------------------------------------------------------------------
\* Time passes between two messages.
Tick ==
    \E d \in TickSteps :
        /\ \E t0 \in StartTimes \cup BoundaryStartTimes :
               t0 <= now /\ now + d <= t0 + MaxElapsed
        /\ now' = now + d
        /\ evt' = Idle
        /\ UNCHANGED <<inFlight, userLocationHistory, suspiciousActivityLog, employeeSessions,
                       employeeStates, pendingAttendanceRequests, attendance_records>>

\* Variant: the request stays pending after the location has taken it.
PendingAfterLocation_NeverDeleted(pendingAction, validationResult) == pendingAction

\* Variant: a rejected reading leaves the request pending.
PendingAfterLocation_KeptOnReject(pendingAction, validationResult) ==
    IF validationResult.isValid THEN "none" ELSE pendingAction

\* pendingAttendanceRequests.delete(message.from) of the location branch:
\* unconditional, whatever the verdict.
PendingAfterLocation(pendingAction, validationResult) == "none"

\* A location message while a request is pending: the request is consumed,
\* the reading validated, the row saved, the reply formatted.
LocationPending ==
    /\ pendingAttendanceRequests # "none"
    /\ Len(userLocationHistory) < MaxReadings
    /\ Len(attendance_records) < MaxRecords
    /\ \E loc \in MessageReadings(now) :
         \E v \in {validateGPSLocationAdvanced(loc, suspiciousActivityLog,
                                               userLocationHistory, now)} :
         \E dbOk \in BOOLEAN :
         LET pendingAction == pendingAttendanceRequests
         IN  /\ pendingAttendanceRequests' =
                   PendingAfterLocation(pendingAction, v.result)
             /\ suspiciousActivityLog' = v.log
             /\ userLocationHistory' = v.history
             /\ attendance_records' =
                   saveAttendanceRecord(attendance_records, pendingAction,
                                        v.result, now, dbOk)
             /\ evt' = [Event("location") EXCEPT
                          !.reading = loc,
                          !.result = v.result,
                          !.saveCalls = 1,
                          !.row = AttendanceRow(pendingAction, v.result, now),
                          !.dbOk = dbOk,
                          !.reply = IF v.result.fraudRisk = "BLOCKED" THEN "BLOCKED"
                                    ELSE IF v.result.isValid THEN "REGISTERED"
                                    ELSE "REJECTED"]
             /\ UNCHANGED <<inFlight, now, employeeSessions, employeeStates>>

\* Variant: the message also drops the cached state.
LocationNothingPending_DropsCache ==
    /\ pendingAttendanceRequests = "none"
    /\ evt' = [Event("location") EXCEPT !.reply = "NOTHING_PENDING"]
    /\ employeeStates' = NoState
    /\ UNCHANGED <<inFlight, now, userLocationHistory, suspiciousActivityLog, employeeSessions,
                   pendingAttendanceRequests, attendance_records>>

\* A location message with no request pending: the informational reply.
LocationNothingPending ==
    /\ pendingAttendanceRequests = "none"
    /\ evt' = [Event("location") EXCEPT !.reply = "NOTHING_PENDING"]
    /\ UNCHANGED <<inFlight, now, userLocationHistory, suspiciousActivityLog, employeeSessions,
                   employeeStates, pendingAttendanceRequests, attendance_records>>

\* The text commands entrada and salida: the legality check, then the
\* request is marked pending when allowed.  A TypeError ends the handler
\* after the state refresh.
\* Variant: a denied command drops the pending request.
PendingAfterCommand_DroppedOnDeny(pending, action, actionValidation) ==
    IF actionValidation.isAllowed THEN action ELSE "none"

\* pendingAttendanceRequests after an entrada / salida command: set to the
\* action when it is allowed, left alone otherwise.
PendingAfterCommand(pending, action, actionValidation) ==
    IF actionValidation.isAllowed THEN action ELSE pending

ActionCommand(action) ==
    \E lastOk \in BOOLEAN, todayOk \in BOOLEAN :
        \E r \in {validateAttendanceAction(employeeSessions, employeeStates,
                                            attendance_records, now, action,
                                            lastOk, todayOk)} :
            /\ employeeSessions' = r.session
            /\ employeeStates' = r.cached
            /\ pendingAttendanceRequests' =
                  PendingAfterCommand(pendingAttendanceRequests, action,
                                      r.validation)
            /\ evt' = [Event(action) EXCEPT
                         !.validation = r.validation,
                         !.dbOk = lastOk /\ todayOk,
                         !.reply = IF r.validation.threw THEN "NONE"
                                   ELSE IF r.validation.isAllowed THEN "ALLOWED"
                                   ELSE "NOT_ALLOWED"]
            /\ UNCHANGED <<inFlight, now, userLocationHistory, suspiciousActivityLog,
                           attendance_records>>

EntradaCommand == ActionCommand("entrada")

SalidaCommand == ActionCommand("salida")

\* Variant: the command answers but leaves the request pending.
CancelCommand_KeepsPending ==
    /\ evt' = [Event("cancelar") EXCEPT
                 !.reply = IF pendingAttendanceRequests # "none"
                           THEN "CANCELLED" ELSE "NOTHING_TO_CANCEL"]
    /\ UNCHANGED <<inFlight, now, userLocationHistory, suspiciousActivityLog, employeeSessions,
                   employeeStates, pendingAttendanceRequests, attendance_records>>

\* The text command cancelar.
CancelCommand ==
    /\ pendingAttendanceRequests' = "none"
    /\ evt' = [Event("cancelar") EXCEPT
                 !.reply = IF pendingAttendanceRequests # "none"
                           THEN "CANCELLED" ELSE "NOTHING_TO_CANCEL"]
    /\ UNCHANGED <<inFlight, now, userLocationHistory, suspiciousActivityLog, employeeSessions,
                   employeeStates, attendance_records>>

\* The text command estado: generateEmployeeStatusReport refreshes the state.
EstadoCommand ==
    \E lastOk \in BOOLEAN, todayOk \in BOOLEAN :
        \E got \in {getEmployeeCurrentState(employeeSessions, employeeStates,
                                            attendance_records, now, TRUE,
                                            lastOk, todayOk)} :
            /\ employeeSessions' = got.session
            /\ employeeStates' = got.cached
            /\ evt' = Idle
            /\ UNCHANGED <<inFlight, now, userLocationHistory, suspiciousActivityLog,
                           pendingAttendanceRequests, attendance_records>>

\* Any other text (ayuda, ubicaciones, a greeting, an unknown command).
OtherText ==
    /\ evt' = Idle
    /\ UNCHANGED <<inFlight, now, userLocationHistory, suspiciousActivityLog, employeeSessions,
                   employeeStates, pendingAttendanceRequests, attendance_records>>

\* The five-minute sweep: a pending request is dropped with probability 0.1.
PendingSweep ==
    /\ pendingAttendanceRequests # "none"
    /\ pendingAttendanceRequests' = "none"
    /\ evt' = Idle
    /\ UNCHANGED <<inFlight, now, userLocationHistory, suspiciousActivityLog, employeeSessions,
                   employeeStates, attendance_records>>

\* ------------------------------------------------------------------------
\* The validation module on its own (exports of gps-validation.js)
\* ------------------------------------------------------------------------
\* validateGPSLocationAdvanced called with a reading.
ValidateReading ==
    /\ Len(userLocationHistory) < MaxAnalysed
    /\ \E loc \in Readings(now) :
         \E v \in {validateGPSLocationAdvanced(loc, suspiciousActivityLog,
                                               userLocationHistory, now)} :
             /\ suspiciousActivityLog' = v.log
             /\ userLocationHistory' = v.history
             /\ evt' = [Event("validate") EXCEPT !.reading = loc,
                                                 !.result = v.result]
    /\ UNCHANGED <<inFlight, now, employeeSessions, employeeStates,
                   pendingAttendanceRequests, attendance_records>>

\* Variant: the warnings survive the reset.
clearUserWarnings_KeepsWarnings(log) ==
    IF log.present
    THEN [log EXCEPT !.isBlocked = FALSE, !.blockUntil = NoValue]
    ELSE log

\* Variant: the block flag survives the reset.
clearUserWarnings_KeepsBlocked(log) ==
    IF log.present
    THEN [log EXCEPT !.warnings = 0, !.blockUntil = NoValue]
    ELSE log

\* clearUserWarnings on a user's fraud record.
clearUserWarnings(log) ==
    IF log.present
    THEN [log EXCEPT !.warnings = 0, !.isBlocked = FALSE, !.blockUntil = NoValue]
    ELSE log

ClearUserWarnings ==
    /\ suspiciousActivityLog' = clearUserWarnings(suspiciousActivityLog)
    /\ evt' = Idle
    /\ UNCHANGED <<inFlight, now, userLocationHistory, employeeSessions, employeeStates,
                   pendingAttendanceRequests, attendance_records>>

NextGps ==
    \/ Tick
    \/ ValidateReading
    \/ ClearUserWarnings

SpecGps == Init /\ [][NextGps]_vars

Next ==
    \/ Tick
    \/ LocationPending
    \/ LocationNothingPending
    \/ EntradaCommand
    \/ SalidaCommand
    \/ CancelCommand
    \/ EstadoCommand
    \/ OtherText
    \/ PendingSweep

Spec == Init /\ [][Next]_vars

\* The same handler started around the ends of the work-day window.
InitHours ==
    /\ now \in BoundaryStartTimes
    /\ userLocationHistory = <<>>
    /\ suspiciousActivityLog = NoUserLog
    /\ employeeSessions = NoSession
    /\ employeeStates = NoState
    /\ pendingAttendanceRequests = "none"
    /\ attendance_records = <<>>
    /\ evt = Idle
    /\ inFlight = <<>>

SpecHours == InitHours /\ [][Next]_vars

\* ------------------------------------------------------------------------
\* The state-control module on its own (exports of attendance-state-control)
\* ------------------------------------------------------------------------
\* The verdicts of a first reading inside a zone and of one outside every
\* zone.
Verdicts(t) ==
    { validateGPSLocationAdvanced(loc, NoUserLog, <<>>, t).result :
        loc \in {Reading(PA, 10, t), Reading(PF, 10, t)} }

\* saveAttendanceRecord called with a verdict, for either action.
CallSaveAttendanceRecord ==
    /\ Len(attendance_records) < MaxRecords
    /\ \E action \in {"entrada", "salida"}, validationResult \in Verdicts(now),
          dbOk \in BOOLEAN :
         /\ attendance_records' =
               saveAttendanceRecord(attendance_records, action,
                                    validationResult, now, dbOk)
         /\ evt' = Idle
         /\ UNCHANGED <<inFlight, now, userLocationHistory, suspiciousActivityLog,
                        employeeSessions, employeeStates,
                        pendingAttendanceRequests>>

\* getEmployeeCurrentState called without a forced refresh.
CallGetEmployeeCurrentState ==
    \E lastOk \in BOOLEAN, todayOk \in BOOLEAN :
        \E got \in {getEmployeeCurrentState(employeeSessions, employeeStates,
                                            attendance_records, now, FALSE,
                                            lastOk, todayOk)} :
            /\ employeeSessions' = got.session
            /\ employeeStates' = got.cached
            /\ evt' = Idle
            /\ UNCHANGED <<inFlight, now, userLocationHistory, suspiciousActivityLog,
                           pendingAttendanceRequests, attendance_records>>

\* setPendingAction called with an action.
CallSetPendingAction ==
    \E action \in {"entrada", "salida"} :
        \E r \in {setPendingAction(employeeSessions, employeeStates, action, now)} :
            /\ employeeSessions' = r.session
            /\ employeeStates' = r.cached
            /\ evt' = [Event("setPendingAction") EXCEPT !.reply = action]
            /\ UNCHANGED <<inFlight, now, userLocationHistory, suspiciousActivityLog,
                           pendingAttendanceRequests, attendance_records>>

\* clearPendingAction called.
CallClearPendingAction ==
    \E r \in {clearPendingAction(employeeSessions, employeeStates)} :
        /\ employeeSessions' = r.session
        /\ employeeStates' = r.cached
        /\ evt' = [Event("clearPendingAction") EXCEPT !.reply = r.hadPending]
        /\ UNCHANGED <<inFlight, now, userLocationHistory, suspiciousActivityLog,
                       pendingAttendanceRequests, attendance_records>>

NextState ==
    \/ Tick
    \/ CallSaveAttendanceRecord
    \/ CallGetEmployeeCurrentState
    \/ CallSetPendingAction
    \/ CallClearPendingAction

\* The module starts empty, in the morning.
InitState ==
    /\ now = 9 * 3600
    /\ userLocationHistory = <<>>
    /\ suspiciousActivityLog = NoUserLog
    /\ employeeSessions = NoSession
    /\ employeeStates = NoState
    /\ pendingAttendanceRequests = "none"
    /\ attendance_records = <<>>
    /\ evt = Idle
    /\ inFlight = <<>>

SpecState == InitState /\ [][NextState]_vars

\* The same exports called around the ends of the work-day window.
SpecStateHours == InitHours /\ [][NextState]_vars

\* ------------------------------------------------------------------------
\* The message handler, one await at a time
\* ------------------------------------------------------------------------
\* whatsappClient.on('message', async ...) is called for every message as it
\* arrives; the emitter does not wait for the promise the handler returns.
\* A handler run gives way at each await of I/O (the message log and the
\* contact, the store reads, the insert, the reply); between two of them it
\* runs without interruption.
MaxHandlers == 2        \* handler runs in progress at once

\* The messages of the employee: a location, or a text command.
MessageTypes == {"location", "entrada", "salida", "cancelar"}

\* A handler run just begun: it awaits saveMessageLog and getContact.
Handler(type, loc) ==
    [type |-> type, pc |-> "logging", reading |-> loc,
     pendingAction |-> "none", result |-> NoResult,
     validation |-> NoValidation, reply |-> "NONE"]

\* inFlight without its i-th run.
RemoveAt(seq, i) == SubSeq(seq, 1, i - 1) \o SubSeq(seq, i + 1, Len(seq))

\* What a finished run leaves for inspection.
HandlerEvent(h) ==
    [Event(h.type) EXCEPT !.pendingBefore = h.pendingAction,
                          !.reading = h.reading,
                          !.result = h.result,
                          !.validation = h.validation,
                          !.reply = h.reply]

\* The reading a location message carries at time t: in a zone, fresh and
\* accurate.
ArrivingReadings(t) == { Reading(PA, 10, t) }

\* A message arrives: the handler is entered and awaits the message log.
Receive ==
    /\ Len(inFlight) < MaxHandlers
    /\ \E type \in MessageTypes :
         \E loc \in (IF type = "location" THEN ArrivingReadings(now)
                     ELSE {NoReading}) :
             inFlight' = Append(inFlight, Handler(type, loc))
    /\ UNCHANGED <<now, userLocationHistory, suspiciousActivityLog,
                   employeeSessions, employeeStates, pendingAttendanceRequests,
                   attendance_records, evt>>

\* A location run resumes and finds a pending request: the request is
\* consumed and the reading validated; the run awaits the insert.
ResumeLocationPending(i) ==
    /\ inFlight[i].pc = "logging" /\ inFlight[i].type = "location"
    /\ pendingAttendanceRequests # "none"
    /\ Len(userLocationHistory) < MaxReadings
    /\ Len(attendance_records) < MaxRecords
    /\ \E v \in {validateGPSLocationAdvanced(inFlight[i].reading,
                                             suspiciousActivityLog,
                                             userLocationHistory, now)} :
         /\ pendingAttendanceRequests' =
               PendingAfterLocation(pendingAttendanceRequests, v.result)
         /\ suspiciousActivityLog' = v.log
         /\ userLocationHistory' = v.history
         /\ inFlight' = [inFlight EXCEPT
                           ![i].pc = "saving",
                           ![i].pendingAction = pendingAttendanceRequests,
                           ![i].result = v.result]
    /\ UNCHANGED <<now, employeeSessions, employeeStates, attendance_records, evt>>

\* A location run resumes and finds nothing pending: it awaits its reply.
ResumeLocationNothingPending(i) ==
    /\ inFlight[i].pc = "logging" /\ inFlight[i].type = "location"
    /\ pendingAttendanceRequests = "none"
    /\ inFlight' = [inFlight EXCEPT ![i].pc = "replying",
                                    ![i].reply = "NOTHING_PENDING"]
    /\ UNCHANGED <<now, userLocationHistory, suspiciousActivityLog,
                   employeeSessions, employeeStates, pendingAttendanceRequests,
                   attendance_records, evt>>

\* An entrada / salida run resumes: validateAttendanceAction is entered and
\* awaits the reads of the store.
ResumeCommand(i) ==
    /\ inFlight[i].pc = "logging" /\ inFlight[i].type \in {"entrada", "salida"}
    /\ employeeSessions' = getOrCreateEmployeeSession(employeeSessions)
    /\ inFlight' = [inFlight EXCEPT ![i].pc = "reading"]
    /\ UNCHANGED <<now, userLocationHistory, suspiciousActivityLog,
                   employeeStates, pendingAttendanceRequests,
                   attendance_records, evt>>

\* A cancelar run resumes: the pending request is dropped; it awaits its reply.
ResumeCancel(i) ==
    /\ inFlight[i].pc = "logging" /\ inFlight[i].type = "cancelar"
    /\ pendingAttendanceRequests' = "none"
    /\ inFlight' = [inFlight EXCEPT
                      ![i].pc = "replying",
                      ![i].pendingAction = pendingAttendanceRequests,
                      ![i].reply = IF pendingAttendanceRequests # "none"
                                   THEN "CANCELLED" ELSE "NOTHING_TO_CANCEL"]
    /\ UNCHANGED <<now, userLocationHistory, suspiciousActivityLog,
                   employeeSessions, employeeStates, attendance_records, evt>>

\* The insert of a location run returns: the run awaits its reply.
ResumeAfterInsert(i) ==
    /\ inFlight[i].pc = "saving"
    /\ \E dbOk \in BOOLEAN :
         attendance_records' =
             saveAttendanceRecord(attendance_records, inFlight[i].pendingAction,
                                  inFlight[i].result, now, dbOk)
    /\ inFlight' = [inFlight EXCEPT
                      ![i].pc = "replying",
                      ![i].reply = IF inFlight[i].result.fraudRisk = "BLOCKED"
                                   THEN "BLOCKED"
                                   ELSE IF inFlight[i].result.isValid
                                   THEN "REGISTERED" ELSE "REJECTED"]
    /\ UNCHANGED <<now, userLocationHistory, suspiciousActivityLog,
                   employeeSessions, employeeStates, pendingAttendanceRequests, evt>>

\* The store reads of a command run return (the two queries are taken as one
\* read): the state is computed and cached, the request decided, and marked
\* pending when allowed.  A run whose decision throws ends without a reply.
ResumeAfterReads(i) ==
    /\ inFlight[i].pc = "reading"
    /\ \E lastOk \in BOOLEAN, todayOk \in BOOLEAN :
         \E r \in {validateAttendanceAction(employeeSessions, employeeStates,
                                            attendance_records, now,
                                            inFlight[i].type, lastOk, todayOk)} :
             /\ employeeSessions' = r.session
             /\ employeeStates' = r.cached
             /\ pendingAttendanceRequests' =
                   PendingAfterCommand(pendingAttendanceRequests,
                                       inFlight[i].type, r.validation)
             /\ IF r.validation.threw
                THEN /\ inFlight' = RemoveAt(inFlight, i)
                     /\ evt' = HandlerEvent([inFlight[i] EXCEPT
                                               !.validation = r.validation])
                ELSE /\ inFlight' = [inFlight EXCEPT
                                       ![i].pc = "replying",
                                       ![i].pendingAction = pendingAttendanceRequests,
                                       ![i].validation = r.validation,
                                       ![i].reply = IF r.validation.isAllowed
                                                    THEN "ALLOWED"
                                                    ELSE "NOT_ALLOWED"]
                     /\ UNCHANGED evt
    /\ UNCHANGED <<now, userLocationHistory, suspiciousActivityLog,
                   attendance_records>>

\* The reply of a run has been sent: the run is over.
ResumeAfterReply(i) ==
    /\ inFlight[i].pc = "replying"
    /\ inFlight' = RemoveAt(inFlight, i)
    /\ evt' = HandlerEvent(inFlight[i])
    /\ UNCHANGED <<now, userLocationHistory, suspiciousActivityLog,
                   employeeSessions, employeeStates, pendingAttendanceRequests,
                   attendance_records>>

NextConc ==
    \/ Receive
    \/ \E i \in 1..Len(inFlight) : ResumeLocationPending(i)
    \/ \E i \in 1..Len(inFlight) : ResumeLocationNothingPending(i)
    \/ \E i \in 1..Len(inFlight) : ResumeCommand(i)
    \/ \E i \in 1..Len(inFlight) : ResumeCancel(i)
    \/ \E i \in 1..Len(inFlight) : ResumeAfterInsert(i)
    \/ \E i \in 1..Len(inFlight) : ResumeAfterReads(i)
    \/ \E i \in 1..Len(inFlight) : ResumeAfterReply(i)

SpecConc == InitState /\ [][NextConc]_vars

\* The same handler with the messages of one request: entrada commands and
\* the locations that answer them.
RequestMessageTypes == {"location", "entrada"}

\* An entrada command or a location arrives.
ReceiveRequestMessage ==
    /\ Len(inFlight) < MaxHandlers
    /\ \E type \in RequestMessageTypes :
         \E loc \in (IF type = "location" THEN ArrivingReadings(now)
                     ELSE {NoReading}) :
             inFlight' = Append(inFlight, Handler(type, loc))
    /\ UNCHANGED <<now, userLocationHistory, suspiciousActivityLog,
                   employeeSessions, employeeStates, pendingAttendanceRequests,
                   attendance_records, evt>>

NextRequest ==
    \/ ReceiveRequestMessage
    \/ \E i \in 1..Len(inFlight) : ResumeLocationPending(i)
    \/ \E i \in 1..Len(inFlight) : ResumeLocationNothingPending(i)
    \/ \E i \in 1..Len(inFlight) : ResumeCommand(i)
    \/ \E i \in 1..Len(inFlight) : ResumeAfterInsert(i)
    \/ \E i \in 1..Len(inFlight) : ResumeAfterReads(i)
    \/ \E i \in 1..Len(inFlight) : ResumeAfterReply(i)

SpecRequest == InitState /\ [][NextRequest]_vars

\* ------------------------------------------------------------------------
\* The basic validation on its own (export validateGPSLocation)
\* ------------------------------------------------------------------------
\* The readings handed to validateGPSLocation at time t: every point, and a
\* reading without latitude or without longitude; without accuracy, with an
\* accuracy of 10 m, of 50 m, of 51 m; without timestamp, taken now, two
\* minutes ago, one second more than two minutes ago.
BasicReadings(t) ==
    { Reading(p, a, ts) :
        p \in Points \cup {<<0, PA[2]>>, <<PA[1], 0>>},
        a \in {NoValue, 10, MIN_ACCURACY, MIN_ACCURACY + 1},
        ts \in {NoValue, t, t - MAX_AGE_MINUTES * 60, t - MAX_AGE_MINUTES * 60 - 1} }

\* validateGPSLocation called with a reading: nothing but the verdict is
\* produced.
CallValidateGPSLocation ==
    /\ \E loc \in BasicReadings(now) :
         \E v \in {validateGPSLocation(loc, now)} :
             evt' = [Event("validateGPSLocation") EXCEPT
                       !.reading = loc,
                       !.result = [NoResult EXCEPT
                                     !.isValid = v.isValid,
                                     !.reasons = v.reasons,
                                     !.location = v.location,
                                     !.distance = v.distance]]
    /\ UNCHANGED <<inFlight, now, userLocationHistory, suspiciousActivityLog,
                   employeeSessions, employeeStates, pendingAttendanceRequests,
                   attendance_records>>

NextBasic ==
    \/ Tick
    \/ CallValidateGPSLocation

SpecBasic == Init /\ [][NextBasic]_vars

\* ------------------------------------------------------------------------
\* A long stream of readings of one user: one reading a second
\* ------------------------------------------------------------------------
MaxStream == 23         \* seconds the stream of readings lasts

\* The reading of the stream: no timestamp, "000" in the latitude; two HIGH
\* flags from the first, three once the history repeats it.
StreamReadings(t) == { Reading(PC, 10, NoValue) }

\* A reading has entered the history at this second.
AnalysedThisSecond ==
    /\ Len(userLocationHistory) > 0
    /\ userLocationHistory[Len(userLocationHistory)].timestamp = now * 1000

\* The stream runs from the start of the morning, and again from the time a
\* block of the first stretch has run out.
StreamStarts == {9 * 3600, 9 * 3600 + BLOCK_DURATION_MINUTES * 60}

\* The next second of the stream begins once this second's reading is in.
TickSecond ==
    /\ AnalysedThisSecond
    /\ \E t0 \in StreamStarts : t0 <= now /\ now < t0 + MaxStream
    /\ now' = now + 1
    /\ evt' = Idle
    /\ UNCHANGED <<inFlight, userLocationHistory, suspiciousActivityLog, employeeSessions,
                   employeeStates, pendingAttendanceRequests, attendance_records>>

\* validateGPSLocationAdvanced called with this second's reading.
StreamReading ==
    /\ ~AnalysedThisSecond
    /\ \E loc \in StreamReadings(now) :
         \E v \in {validateGPSLocationAdvanced(loc, suspiciousActivityLog,
                                               userLocationHistory, now)} :
             /\ suspiciousActivityLog' = v.log
             /\ userLocationHistory' = v.history
             /\ evt' = [Event("validate") EXCEPT !.reading = loc,
                                                 !.result = v.result]
    /\ UNCHANGED <<inFlight, now, employeeSessions, employeeStates,
                   pendingAttendanceRequests, attendance_records>>

\* The user, blocked in the first stretch, sends nothing until blockUntil.
WaitOutBlock ==
    /\ ActiveBlock(suspiciousActivityLog, now * 1000)
    /\ now < 9 * 3600 + BLOCK_DURATION_MINUTES * 60
    /\ now' = suspiciousActivityLog.blockUntil \div 1000
    /\ evt' = Idle
    /\ UNCHANGED <<inFlight, userLocationHistory, suspiciousActivityLog, employeeSessions,
                   employeeStates, pendingAttendanceRequests, attendance_records>>

NextStream ==
    \/ TickSecond
    \/ WaitOutBlock
    \/ StreamReading
    \/ ClearUserWarnings

SpecStream == InitState /\ [][NextStream]_vars

\* ------------------------------------------------------------------------
\* The message handler over a day of entries: every location lies in zone 1
\* ------------------------------------------------------------------------
MaxDayRecords == 4      \* rows up to which location messages are handled here

\* The reading of every location message here: zone 1, accurate, fresh.
ZoneReadings(t) == { Reading(PA, 10, t) }

\* A location message while a request is pending (as LocationPending).
LocationInZone ==
    /\ pendingAttendanceRequests # "none"
    /\ Len(attendance_records) < MaxDayRecords
    /\ \E loc \in ZoneReadings(now) :
         \E v \in {validateGPSLocationAdvanced(loc, suspiciousActivityLog,
                                               userLocationHistory, now)} :
         \E dbOk \in BOOLEAN :
         LET pendingAction == pendingAttendanceRequests
         IN  /\ pendingAttendanceRequests' =
                   PendingAfterLocation(pendingAction, v.result)
             /\ suspiciousActivityLog' = v.log
             /\ userLocationHistory' = v.history
             /\ attendance_records' =
                   saveAttendanceRecord(attendance_records, pendingAction,
                                        v.result, now, dbOk)
             /\ evt' = [Event("location") EXCEPT
                          !.reading = loc,
                          !.result = v.result,
                          !.saveCalls = 1,
                          !.row = AttendanceRow(pendingAction, v.result, now),
                          !.dbOk = dbOk,
                          !.reply = IF v.result.fraudRisk = "BLOCKED" THEN "BLOCKED"
                                    ELSE IF v.result.isValid THEN "REGISTERED"
                                    ELSE "REJECTED"]
             /\ UNCHANGED <<inFlight, now, employeeSessions, employeeStates>>

NextDay ==
    \/ Tick
    \/ EntradaCommand
    \/ SalidaCommand
    \/ LocationInZone

SpecDay == InitState /\ [][NextDay]_vars

\* ------------------------------------------------------------------------
\* Properties
\* ------------------------------------------------------------------------
Last(seq) == seq[Len(seq)]

HighCount(flags) == Len(HighFlags(flags))

\* The reading lies within the radius of some configured zone.
InSomeZone(r) ==
    /\ Truthy(r.latitude) /\ Truthy(r.longitude)
    /\ \E i \in 1..Len(AUTHORIZED_LOCATIONS) :
          ZoneDistance(r.latitude, r.longitude, i) <= AUTHORIZED_LOCATIONS[i].radius

\* The reading was captured more than two minutes before t.
StaleReading(r, t) == Truthy(r.timestamp) /\ t - r.timestamp > 120

HasReason(result, reason) ==
    \E i \in 1..Len(result.reasons) : result.reasons[i] = reason

\* The block of the fraud record still holds now / has run out now.
BlockedNow ==
    suspiciousActivityLog.isBlocked /\ suspiciousActivityLog.blockUntil > now * 1000

BlockRunOut ==
    suspiciousActivityLog.isBlocked /\ suspiciousActivityLog.blockUntil <= now * 1000

\* C1: a verdict of validateGPSLocationAdvanced is valid only if the reading
\* lies within the radius of some zone and the fraud risk of the evaluation
\* is neither HIGH nor BLOCKED.
C1_ValidOnlyAuthorizedAndLowRisk ==
    (evt.type = "validate" /\ evt.result.isValid) =>
        /\ InSomeZone(evt.reading)
        /\ evt.result.fraudRisk \notin {"HIGH", "BLOCKED"}
        /\ HighCount(evt.result.suspiciousFlags) < 2

\* C1 witness: a reading accepted at risk MEDIUM after earlier readings.
C1_Witness ==
    /\ evt.type = "validate" /\ evt.result.isValid
    /\ evt.result.fraudRisk = "MEDIUM"
    /\ Len(userLocationHistory) >= 2

\* C3 as stated: every evaluated reading of a non-blocked user adds the
\* number of its HIGH flags to the warnings, and an incident is appended
\* exactly when at least one HIGH flag was raised.
C3_EveryHighFlagCounts ==
    [][ (evt'.type = "validate" /\ ~suspiciousActivityLog.isBlocked) =>
          LET k == HighCount(evt'.result.suspiciousFlags)
          IN  /\ suspiciousActivityLog'.warnings = suspiciousActivityLog.warnings + k
              /\ (Len(suspiciousActivityLog'.incidents)
                    = Len(suspiciousActivityLog.incidents) + 1) <=> (k >= 1)
      ]_vars

\* C3 amended: an evaluated reading of a non-blocked user adds the number of
\* its HIGH flags to the warnings, and appends an incident, exactly when it
\* raised at least two HIGH flags; otherwise warnings and incidents stay.
C3_HighFlagsCountAtRiskHigh ==
    [][ (evt'.type = "validate" /\ ~suspiciousActivityLog.isBlocked) =>
          LET flags == evt'.result.suspiciousFlags
              k == HighCount(flags)
              pushed == Append(suspiciousActivityLog.incidents,
                               [timestamp |-> now * 1000, flags |-> flags])
          IN  IF k >= 2
              THEN /\ suspiciousActivityLog'.warnings
                         = suspiciousActivityLog.warnings + k
                   /\ suspiciousActivityLog'.incidents
                         = IF Len(pushed) > 20 THEN Tail(pushed) ELSE pushed
              ELSE /\ suspiciousActivityLog'.warnings = suspiciousActivityLog.warnings
                   /\ suspiciousActivityLog'.incidents = suspiciousActivityLog.incidents
      ]_vars

\* C3 witness: a reading with a single HIGH flag (and a MEDIUM one) evaluated
\* after one that raised two HIGH flags: the warnings stand at 2.
C3_Witness ==
    /\ evt.type = "validate" /\ ~evt.wasBlocked
    /\ HighCount(evt.result.suspiciousFlags) = 1
    /\ suspiciousActivityLog.warnings = 2
    /\ Len(suspiciousActivityLog.incidents) = 1

\* C4: whenever the warnings stand at 5 or more the user is blocked, and the
\* call that takes them there sets blockUntil to now + 30 minutes, reports
\* BLOCKED and rejects the reading.
C4_WarningLimitBlocks ==
    /\ [](suspiciousActivityLog.warnings >= 5 =>
            suspiciousActivityLog.isBlocked /\ suspiciousActivityLog.blockUntil > 0)
    /\ [][ (/\ evt'.type = "validate"
            /\ suspiciousActivityLog'.warnings >= 5
            /\ suspiciousActivityLog'.warnings # suspiciousActivityLog.warnings) =>
             /\ suspiciousActivityLog'.isBlocked
             /\ suspiciousActivityLog'.blockUntil = now * 1000 + 30 * 60 * 1000
             /\ evt'.result.fraudRisk = "BLOCKED"
             /\ ~evt'.result.isValid
         ]_vars

\* C4 witness: the call that took the warnings past the limit.
C4_Witness ==
    /\ evt.type = "validate" /\ ~evt.wasBlocked
    /\ evt.result.reasons = <<"BLOCKED_NOW">>
    /\ suspiciousActivityLog.warnings >= 5
    /\ suspiciousActivityLog.isBlocked

\* C5: a reading of a user whose block still holds is reported BLOCKED and
\* rejected with no flags, zone or distance, and leaves the fraud record and
\* the location history as they were.
C5_BlockedReadingNotEvaluated ==
    [][ (evt'.type = "validate" /\ BlockedNow) =>
          /\ evt'.result.fraudRisk = "BLOCKED"
          /\ ~evt'.result.isValid
          /\ evt'.result.suspiciousFlags = <<>>
          /\ evt'.result.location = NoValue /\ evt'.result.distance = NoValue
          /\ UNCHANGED <<suspiciousActivityLog, userLocationHistory>>
      ]_vars

\* C5 witness: a reading answered with the active block.
C5_Witness ==
    /\ evt.type = "validate" /\ evt.wasBlocked
    /\ evt.result.reasons = <<"BLOCKED_ACTIVE">>
    /\ BlockedNow

\* C6: the reading evaluated for a blocked user at or after blockUntil lifts
\* the block, restarts the warnings from 0 before its own flags are counted
\* and is not reported BLOCKED.
C6_RunOutBlockIsLifted ==
    [][ (evt'.type = "validate" /\ BlockRunOut) =>
          LET k == HighCount(evt'.result.suspiciousFlags)
          IN  /\ ~suspiciousActivityLog'.isBlocked
              /\ suspiciousActivityLog'.blockUntil = NoValue
              /\ suspiciousActivityLog'.warnings = (IF k >= 2 THEN k ELSE 0)
              /\ evt'.result.fraudRisk # "BLOCKED"
      ]_vars

\* C6 witness: a reading with two HIGH flags evaluated once the block had run
\* out: the user is unblocked with 2 warnings.
C6_Witness ==
    /\ evt.type = "validate" /\ evt.wasBlocked
    /\ ~suspiciousActivityLog.isBlocked
    /\ evt.result.fraudRisk = "HIGH"
    /\ suspiciousActivityLog.warnings = 2

DerivedStatus ==
    getEmployeeCurrentState(employeeSessions, employeeStates, attendance_records,
                            now, TRUE, TRUE, TRUE).state.currentStatus

\* The most recent record with validation_status VALID, NoRow if none.
LastValidRecord ==
    LET valid == SelectSeq(attendance_records,
                           LAMBDA r : r.validation_status = "VALID")
    IN  IF valid = <<>> THEN NoRow ELSE Last(valid)

\* C2 as stated: the derived status is IN if and only if the most recent
\* VALID record is an entrada, so an INVALID record after a valid entrada
\* leaves the status IN.
C2_StatusFollowsLastValidRecord ==
    (DerivedStatus = "IN") <=> (LastValidRecord.action_type = "entrada")

\* C8: a location message received while a request is pending hands exactly
\* one row to saveAttendanceRecord, whatever the verdict: its action is the
\* pending one and it is VALID if and only if the verdict is valid; the
\* table gains that row, or nothing when the store fails.
C8_OneRowPerPendingReading ==
    [][ (evt'.type = "location" /\ pendingAttendanceRequests # "none") =>
          /\ evt'.saveCalls = 1
          /\ evt'.row.action_type = pendingAttendanceRequests
          /\ (evt'.row.validation_status = "VALID") <=> evt'.result.isValid
          /\ evt'.row.validation_status \in {"VALID", "INVALID"}
          /\ attendance_records' =
                IF evt'.dbOk THEN Append(attendance_records, evt'.row)
                ELSE attendance_records
      ]_vars

\* C8 witness: the reading that got the user blocked was recorded as an
\* INVALID row of the pending action.
C8_Witness ==
    /\ evt.type = "location" /\ evt.pendingBefore = "entrada"
    /\ evt.result.fraudRisk = "BLOCKED" /\ evt.dbOk
    /\ attendance_records # <<>>
    /\ Last(attendance_records) = evt.row
    /\ evt.row.validation_status = "INVALID"
    /\ evt.row.action_type = "entrada"

\* The reading is fresh (at most two minutes old), accurate (at most 50 m).
FreshReading(r, t) == Truthy(r.timestamp) /\ t - r.timestamp <= 120

AccurateReading(r) == r.accuracy # NoValue /\ r.accuracy <= 50

\* An entrada command at hour 9 from a user with no record today.
EntradaAtNineNoRecordToday ==
    /\ evt'.type = "entrada"
    /\ HourOf(now) = 9
    /\ getTodayAttendanceRecords(attendance_records, now, TRUE) = <<>>

\* A fresh, accurate, in-zone reading, the first the user has sent, received
\* while entrada is pending and no record of today exists.
GoodReadingForPendingEntrada ==
    /\ evt'.type = "location"
    /\ pendingAttendanceRequests = "entrada"
    /\ getTodayAttendanceRecords(attendance_records, now, TRUE) = <<>>
    /\ userLocationHistory = <<>>
    /\ FreshReading(evt'.reading, now)
    /\ AccurateReading(evt'.reading)
    /\ InSomeZone(evt'.reading)

\* The reading was accepted and recorded: a VALID entrada row is the last of
\* the table, the derived status is IN, nothing is pending.
RecordedAsValidEntrada ==
    /\ evt'.result.isValid
    /\ attendance_records' = Append(attendance_records, evt'.row)
    /\ evt'.row.validation_status = "VALID"
    /\ evt'.row.action_type = "entrada"
    /\ DerivedStatus' = "IN"
    /\ pendingAttendanceRequests' = "none"

C10_OtherActionPendingIsConflict ==
    (evt.type \in {"entrada", "salida"}
       /\ evt.pendingBefore \in {"entrada", "salida"} \ {evt.type}) =>
        /\ ~evt.validation.isAllowed
        /\ evt.validation.reason = "PENDING_CONFLICT"
        /\ pendingAttendanceRequests = evt.pendingBefore

\* C11: an entrada command received while entrada is already pending is a
\* retry: it is not denied for a pending conflict, and afterwards the one
\* pending action of the user is entrada.
C11_SameActionPendingIsRetry ==
    (evt.type = "entrada" /\ evt.pendingBefore = "entrada") =>
        /\ evt.validation.reason # "PENDING_CONFLICT"
        /\ ~evt.validation.threw
        /\ pendingAttendanceRequests = "entrada"

\* C11 witness: an entrada command repeated while entrada was pending and
\* denied (the user is already in): entrada is still pending.
C11_Witness ==
    /\ evt.type = "entrada" /\ evt.pendingBefore = "entrada"
    /\ ~evt.validation.isAllowed
    /\ evt.validation.reason = "ALREADY_IN"
    /\ pendingAttendanceRequests = "entrada"

\* C12: an entrada command received at an hour outside the work-day window
\* [6, 22] is denied for being outside working hours, and marks nothing
\* pending.
C12_EntradaOutsideHoursDenied ==
    (evt.type = "entrada" /\ (HourOf(now) < 6 \/ HourOf(now) > 22)) =>
        /\ ~evt.validation.isAllowed
        /\ evt.validation.reason = "OUTSIDE_WORK_HOURS"
        /\ pendingAttendanceRequests = evt.pendingBefore

\* C12 witness: an entrada command at hour 23, half an hour after an allowed
\* entrada at 22:30: denied, and the earlier request is still the pending one.
C12_Witness ==
    /\ evt.type = "entrada" /\ HourOf(now) = 23
    /\ evt.pendingBefore = "entrada"
    /\ evt.validation.reason = "OUTSIDE_WORK_HOURS"
    /\ evt.reply = "NOT_ALLOWED"
    /\ pendingAttendanceRequests = "entrada"

\* The cached state was computed more than the pending validity ago.  Every
\* entrada / salida command recomputes and caches the state, so the request
\* now pending was allowed at least that long ago.
PendingOlderThanValidity ==
    /\ pendingAttendanceRequests # "none"
    /\ employeeStates.present
    /\ now * 1000 - employeeStates.cacheTime > PENDING_VALIDITY_MINUTES * 60000

\* C13: a pending action expires 10 minutes after it was marked: a location
\* message that arrives later than that does not complete the action, no
\* attendance record is written for it.
C13_LateReadingCompletesNothing ==
    [][(evt'.type = "location" /\ PendingOlderThanValidity) =>
          /\ attendance_records' = attendance_records
          /\ evt'.saveCalls = 0]_vars

\* The state getEmployeeCurrentState derives for the user as things are now
\* (refresh forced, the store answering).
DerivedState ==
    getEmployeeCurrentState(employeeSessions, employeeStates, attendance_records,
                            now, TRUE, TRUE, TRUE).state

\* C14: after an entrada or salida command is allowed, the next derived state
\* of the user reports that action as pendingAction and neither canEnter nor
\* canExit.
C14_AllowedCommandMarksStatePending ==
    (evt.type \in {"entrada", "salida"} /\ evt.validation.isAllowed) =>
        \A state \in {DerivedState} :
            /\ state.pendingAction = evt.type
            /\ ~state.canEnter
            /\ ~state.canExit

\* C15: a cancelar command removes the pending request at once and writes no
\* record: afterwards nothing is pending in the request map, in the derived
\* state or in the cached state, the status and the daily counters are as
\* before, and a location message that follows is answered as nothing
\* pending, without a record.
C15_CancelClearsPendingOnly ==
    [][/\ (evt'.type = "cancelar") =>
            \A before \in {DerivedState} : \A after \in {DerivedState'} :
                /\ pendingAttendanceRequests' = "none"
                /\ attendance_records' = attendance_records
                /\ evt'.saveCalls = 0
                /\ after.pendingAction = "none"
                /\ employeeStates'.pendingAction = "none"
                /\ after.currentStatus = before.currentStatus
                /\ after.todayEntries = before.todayEntries
                /\ after.todayExits = before.todayExits
       /\ (evt.type = "cancelar" /\ evt'.type = "location") =>
            /\ evt'.reply = "NOTHING_PENDING"
            /\ evt'.saveCalls = 0
            /\ attendance_records' = attendance_records]_vars

\* C15 witness: a pending salida of a user who is in, with one entry today,
\* has just been cancelled.
C15_Witness ==
    /\ evt.type = "cancelar" /\ evt.pendingBefore = "salida"
    /\ evt.reply = "CANCELLED"
    /\ pendingAttendanceRequests = "none"
    /\ DerivedState.currentStatus = "IN"
    /\ DerivedState.todayEntries = 1

\* C16: a location message of a user with no pending request gets only the
\* nothing-pending reply: the reading is not validated and nothing is
\* recorded; the location history, the fraud record, the pending marker, the
\* session, the cached state and the store are left as they were.
C16_LocationWithoutPendingIsInert ==
    [][(evt'.type = "location" /\ pendingAttendanceRequests = "none") =>
          /\ evt'.reply = "NOTHING_PENDING"
          /\ evt'.result = NoResult
          /\ evt'.saveCalls = 0
          /\ UNCHANGED <<userLocationHistory, suspiciousActivityLog,
                         pendingAttendanceRequests, employeeSessions,
                         employeeStates, attendance_records>>]_vars

\* C16 witness: the nothing-pending reply given to a user who has a location
\* history, a record in the store and a cached state.
C16_Witness ==
    /\ evt.type = "location" /\ evt.pendingBefore = "none"
    /\ evt.reply = "NOTHING_PENDING"
    /\ userLocationHistory # <<>>
    /\ attendance_records # <<>>
    /\ employeeStates.present
    /\ suspiciousActivityLog.warnings > 0

\* C17: once a location message has been processed for a user with a pending
\* request, the user has no pending action, whatever the verdict and whether
\* or not the insert of the record succeeded.
C17_ProcessedReadingClearsPending ==
    [][(evt'.type = "location" /\ pendingAttendanceRequests # "none") =>
          /\ evt'.saveCalls = 1
          /\ pendingAttendanceRequests' = "none"
          /\ DerivedState'.pendingAction = "none"]_vars

\* C17 witness: a reading of a blocked user, sent for a pending request, whose
\* insert failed: nothing is pending afterwards.
C17_Witness ==
    /\ evt.type = "location" /\ evt.pendingBefore # "none"
    /\ evt.result.fraudRisk = "BLOCKED"
    /\ ~evt.dbOk
    /\ pendingAttendanceRequests = "none"

\* C20: when the insert of the attendance record fails, the processing of the
\* reading still completes: the verdict is the one the validation computes
\* for that reading, the pending request is cleared, a reply is produced,
\* and the store holds no record of the attempt.
C20_FailedInsertIsSoft ==
    [][(evt'.type = "location" /\ pendingAttendanceRequests # "none"
        /\ ~evt'.dbOk) =>
          /\ evt'.result =
                validateGPSLocationAdvanced(evt'.reading, suspiciousActivityLog,
                                            userLocationHistory, now).result
          /\ evt'.saveCalls = 1
          /\ pendingAttendanceRequests' = "none"
          /\ evt'.reply \in {"REGISTERED", "REJECTED", "BLOCKED"}
          /\ (evt'.reply = "REGISTERED") = evt'.result.isValid
          /\ attendance_records' = attendance_records]_vars

\* C20 witness: a valid reading for a pending entrada whose insert failed: the
\* user is told the entrada is registered, and the store is still empty.
C20_Witness ==
    /\ evt.type = "location" /\ evt.pendingBefore = "entrada"
    /\ ~evt.dbOk
    /\ evt.result.isValid
    /\ evt.reply = "REGISTERED"
    /\ pendingAttendanceRequests = "none"
    /\ attendance_records = <<>>

\* C19: no call of validateAttendanceAction throws: for every state the user
\* can be in, and for entrada and salida alike, the command gets a
\* structured decision (allowed or denied with a reason) and a reply.
C19_ValidateAttendanceActionNeverThrows ==
    (evt.type \in {"entrada", "salida"}) =>
        /\ ~evt.validation.threw
        /\ evt.validation.reason # "NONE"
        /\ evt.reply \in {"ALLOWED", "NOT_ALLOWED"}

\* The state the next plain read of getEmployeeCurrentState returns (no
\* forced refresh, the store answering).
ReadState ==
    getEmployeeCurrentState(employeeSessions, employeeStates, attendance_records,
                            now, FALSE, TRUE, TRUE).state

\* The warnings of a state other than the pending-action one.
OtherWarnings(state) == SelectSeq(state.warnings, LAMBDA w : w # "PENDING_ACTION")

\* Two states agree on everything but pendingAction, canEnter, canExit and
\* the pending warning.
SameButPending(a, b) ==
    /\ a.currentStatus = b.currentStatus
    /\ a.lastAction = b.lastAction
    /\ a.lastActionTime = b.lastActionTime
    /\ a.todayEntries = b.todayEntries
    /\ a.todayExits = b.todayExits
    /\ a.workingSeconds = b.workingSeconds
    /\ a.missingExit = b.missingExit
    /\ a.isWorkingHours = b.isWorkingHours
    /\ OtherWarnings(a) = OtherWarnings(b)

\* C18: marking or clearing a pending action does not change the derived
\* status, lastAction, todayEntries or todayExits: the state computed just
\* before setPendingAction or clearPendingAction and the state read just
\* after differ only in pendingAction, canEnter, canExit and the pending
\* warning, and the state read after reports the action marked, or none.
C18_PendingMarkerLeavesStatusAlone ==
    [][(evt'.type \in {"setPendingAction", "clearPendingAction"}) =>
          \A before \in {DerivedState} : \A after \in {ReadState'} :
              /\ SameButPending(before, after)
              /\ (evt'.type = "setPendingAction") =>
                    /\ after.pendingAction = evt'.reply
                    /\ ~after.canEnter /\ ~after.canExit
              /\ (evt'.type = "clearPendingAction") =>
                    after.pendingAction = "none"]_vars

\* C18 witness: salida has just been marked pending for a user who is in with
\* one entry today: the state read now is in, with salida pending and no
\* exit possible.
C18_Witness ==
    /\ evt.type = "setPendingAction" /\ evt.reply = "salida"
    /\ ReadState.currentStatus = "IN"
    /\ ReadState.todayEntries = 1
    /\ ReadState.pendingAction = "salida"
    /\ ~ReadState.canExit

\* C21: once an attendance record has been persisted, the next read of the
\* user's state, forced or not, reflects the records: the state a plain read
\* returns agrees with the state computed from the store.
C21_ReadAfterWriteIsRecomputed ==
    [][(attendance_records' # attendance_records) =>
          \A read \in {ReadState'} : \A computed \in {DerivedState'} :
              /\ read.currentStatus = computed.currentStatus
              /\ read.lastAction = computed.lastAction
              /\ read.todayEntries = computed.todayEntries
              /\ read.todayExits = computed.todayExits]_vars

\* C22: the events of a user are handled one after the other: the handling of
\* one message runs to completion, awaited store and reply calls included,
\* before the handling of the next one starts, so at most one handler run is
\* in progress at any time.
C22_OneHandlerAtATime == Len(inFlight) <= 1

\* The zones, by their place in the configured list, that hold a coordinate:
\* the distance to the zone is within the zone's own radius.
ZonesHolding(lat, lng) ==
    { i \in 1..Len(AUTHORIZED_LOCATIONS) :
        ZoneDistance(lat, lng, i) <= AUTHORIZED_LOCATIONS[i].radius }

\* A reading that reached the geofence check of validateGPSLocation.
ReachedGeofence ==
    /\ evt.type = "validateGPSLocation"
    /\ evt.result.reasons \in {<<"ZONE_OK">>, <<"NOT_AUTHORIZED">>}

\* C23: a coordinate is reported authorized exactly when at least one zone
\* has it within its own radius, the boundary included, and the zone
\* returned is then the first such zone of the configured list, even when a
\* later zone is nearer.
C23_FirstZoneInListOrderWins ==
    ReachedGeofence =>
        \A inside \in {ZonesHolding(evt.reading.latitude, evt.reading.longitude)} :
            /\ evt.result.isValid = (inside # {})
            /\ evt.result.isValid =>
                  \E i \in inside :
                      /\ \A j \in inside : i <= j
                      /\ evt.result.location = AUTHORIZED_LOCATIONS[i].id
                      /\ evt.result.distance =
                            ZoneDistance(evt.reading.latitude,
                                         evt.reading.longitude, i)

\* C23 witness: a point held by zones 1 and 2 and nearer to zone 2 is
\* reported in zone 1, at its distance from zone 1.
C23_Witness ==
    /\ ReachedGeofence
    /\ <<evt.reading.latitude, evt.reading.longitude>> = PB
    /\ ZonesHolding(PB[1], PB[2]) = {1, 2}
    /\ ZoneDistance(PB[1], PB[2], 2) < ZoneDistance(PB[1], PB[2], 1)
    /\ evt.result.isValid
    /\ evt.result.location = 1
    /\ evt.result.distance = 91

\* A reading handed to validateGPSLocation that has both coordinates and is
\* not stale: it reaches the accuracy gate.
ReachesAccuracyGate ==
    /\ evt.type = "validateGPSLocation"
    /\ Truthy(evt.reading.latitude) /\ Truthy(evt.reading.longitude)
    /\ \/ ~Truthy(evt.reading.timestamp)
       \/ isLocationTimestampValid(evt.reading.timestamp, now)

\* C24: a reading whose accuracy is absent or above 50 metres is rejected
\* with the insufficient-accuracy reason; no reading without an accuracy
\* value is accepted.
C24_AbsentOrPoorAccuracyRejected ==
    (ReachesAccuracyGate
       /\ (evt.reading.accuracy = NoValue \/ evt.reading.accuracy > MIN_ACCURACY)) =>
        /\ ~evt.result.isValid
        /\ evt.result.reasons = <<"INSUFFICIENT_ACCURACY">>

\* The fraud record of the user, an absent one read as the empty record
\* manageSuspiciousUser creates at first sight.
FraudRecord ==
    IF suspiciousActivityLog.present THEN suspiciousActivityLog ELSE NewUserLog

\* The reading of the call just made lacks latitude or longitude.
LacksCoordinates(reading) == ~Truthy(reading.latitude) \/ ~Truthy(reading.longitude)

\* C25 as stated: a reading lacking latitude or longitude is rejected with the
\* missing-coordinates reason before any other check, the block-status check
\* included, and the fraud record and the location history are unchanged.
C25_MissingCoordinatesBeforeEveryCheck ==
    [][(evt'.type = "validate" /\ LacksCoordinates(evt'.reading)) =>
          /\ ~evt'.result.isValid
          /\ evt'.result.reasons = <<"MISSING_COORDINATES">>
          /\ FraudRecord' = FraudRecord
          /\ userLocationHistory' = userLocationHistory]_vars

\* C25, amended: the block-status check comes first.  A reading lacking
\* latitude or longitude of a user with an active block is refused as
\* blocked, the fraud record unchanged; otherwise it is rejected with the
\* missing-coordinates reason alone, at risk LOW, without flags, zone or
\* distance, and the fraud record is unchanged but for a block that has run
\* out, which is lifted with the warnings reset.  The location history is
\* unchanged in every case.
C25_MissingCoordinatesAfterBlockCheck ==
    [][(evt'.type = "validate" /\ LacksCoordinates(evt'.reading)) =>
          \A before \in {FraudRecord} : \A after \in {FraudRecord'} :
              /\ userLocationHistory' = userLocationHistory
              /\ ~evt'.result.isValid
              /\ evt'.result.suspiciousFlags = <<>>
              /\ evt'.result.location = NoValue
              /\ evt'.result.distance = NoValue
              /\ IF before.isBlocked /\ before.blockUntil > now * 1000
                 THEN /\ evt'.result.fraudRisk = "BLOCKED"
                      /\ evt'.result.reasons = <<"BLOCKED_ACTIVE">>
                      /\ after = before
                 ELSE /\ evt'.result.fraudRisk = "LOW"
                      /\ evt'.result.reasons = <<"MISSING_COORDINATES">>
                      /\ after = IF before.isBlocked
                                 THEN [before EXCEPT !.isBlocked = FALSE,
                                                     !.blockUntil = NoValue,
                                                     !.warnings = 0]
                                 ELSE before]_vars

\* C25 witness: a reading without coordinates of a user whose block had run
\* out: rejected for its coordinates, and the block is lifted.
C25_Witness ==
    /\ evt.type = "validate" /\ LacksCoordinates(evt.reading)
    /\ evt.wasBlocked
    /\ evt.result.reasons = <<"MISSING_COORDINATES">>
    /\ ~suspiciousActivityLog.isBlocked
    /\ suspiciousActivityLog.warnings = 0
    /\ userLocationHistory # <<>>

\* A flag of the given type is among the flags.
HasFlag(flags, type) == \E i \in 1..Len(flags) : flags[i].type = type

\* The call just made analysed its reading: the user had no active block and
\* the reading has both coordinates.
Analysed ==
    /\ evt'.type = "validate"
    /\ ~LacksCoordinates(evt'.reading)
    /\ ~(FraudRecord.isBlocked /\ FraudRecord.blockUntil > now * 1000)

\* The last k entries of the history all have the coordinates of the reading.
PrecededByIdentical(history, reading, k) ==
    /\ Len(history) >= k
    /\ \A i \in (Len(history) - k + 1)..Len(history) :
          /\ history[i].lat = reading.latitude
          /\ history[i].lng = reading.longitude

\* C26: an analysed reading raises IDENTICAL_LOCATIONS, with severity HIGH,
\* exactly when at least 3 entries of the history immediately before it have
\* its very latitude and longitude: of four identical readings in a row the
\* fourth raises the flag and the first three do not.
C26_IdenticalLocationsOnFourth ==
    [][Analysed =>
          /\ HasFlag(evt'.result.suspiciousFlags, "IDENTICAL_LOCATIONS")
                = PrecededByIdentical(userLocationHistory, evt'.reading, 3)
          /\ \A i \in 1..Len(evt'.result.suspiciousFlags) :
                evt'.result.suspiciousFlags[i].type = "IDENTICAL_LOCATIONS" =>
                    evt'.result.suspiciousFlags[i].severity = "HIGH"]_vars

\* C26 witness: the fourth of four readings at one place has just been
\* analysed and carries the flag.
C26_Witness ==
    /\ evt.type = "validate"
    /\ Len(userLocationHistory) = 4
    /\ \A i \in 1..4 : /\ userLocationHistory[i].lat = evt.reading.latitude
                       /\ userLocationHistory[i].lng = evt.reading.longitude
    /\ HasFlag(evt.result.suspiciousFlags, "IDENTICAL_LOCATIONS")

\* The number of flags of a severity among the flags.
SeverityCount(flags, severity) ==
    Cardinality({i \in 1..Len(flags) : flags[i].severity = severity})

\* C27: the risk level of an evaluation follows from the flags of that
\* evaluation alone: HIGH with at least 2 HIGH flags; otherwise MEDIUM with
\* at least 1 HIGH flag or at least 2 MEDIUM flags; otherwise LOW.  BLOCKED
\* comes from the block manager only.
C27_RiskFollowsFlagCounts ==
    (evt.type = "validate") =>
        \A high \in {SeverityCount(evt.result.suspiciousFlags, "HIGH")} :
        \A medium \in {SeverityCount(evt.result.suspiciousFlags, "MEDIUM")} :
            IF evt.result.fraudRisk = "BLOCKED"
            THEN /\ evt.result.reasons \in {<<"BLOCKED_ACTIVE">>, <<"BLOCKED_NOW">>}
                 /\ suspiciousActivityLog.isBlocked
            ELSE evt.result.fraudRisk =
                    IF high >= 2 THEN "HIGH"
                    ELSE IF high >= 1 \/ medium >= 2 THEN "MEDIUM"
                    ELSE "LOW"

\* C27 witness: an evaluation with two MEDIUM flags and no HIGH flag, at risk
\* MEDIUM.
C27_Witness ==
    /\ evt.type = "validate"
    /\ SeverityCount(evt.result.suspiciousFlags, "HIGH") = 0
    /\ SeverityCount(evt.result.suspiciousFlags, "MEDIUM") = 2
    /\ evt.result.fraudRisk = "MEDIUM"

\* The last max entries of a sequence, in their order.
LastOf(seq, max) ==
    IF Len(seq) > max THEN SubSeq(seq, Len(seq) - max + 1, Len(seq)) ELSE seq

\* C28: the location history never holds more than 10 entries and the
\* incident log never more than 20; every analysed reading goes to the end
\* of the history and every incident (an evaluation with two HIGH flags) to
\* the end of the log, and at the limit the oldest entry makes room, the
\* others keeping their order; nothing else changes either of them.
C28_HistoryAndIncidentsAreBoundedQueues ==
    [][ /\ Len(userLocationHistory') <= 10
        /\ Len(suspiciousActivityLog'.incidents) <= 20
        /\ IF Analysed
           THEN \E e \in {userLocationHistory'[Len(userLocationHistory')]} :
                    /\ e.lat = evt'.reading.latitude
                    /\ e.lng = evt'.reading.longitude
                    /\ userLocationHistory' =
                          LastOf(Append(userLocationHistory, e), 10)
           ELSE userLocationHistory' = userLocationHistory
        /\ IF Analysed /\ SeverityCount(evt'.result.suspiciousFlags, "HIGH") >= 2
           THEN suspiciousActivityLog'.incidents =
                    LastOf(Append(suspiciousActivityLog.incidents,
                                  [timestamp |-> now' * 1000,
                                   flags |-> evt'.result.suspiciousFlags]), 20)
           ELSE suspiciousActivityLog'.incidents = suspiciousActivityLog.incidents
      ]_vars

\* C28 witness: the 24th reading of a stream has been analysed: the history
\* holds the last 10 readings and the incident log the last 20 incidents,
\* the first readings and incidents gone.
C28_Witness ==
    /\ evt.type = "validate"
    /\ now = 9 * 3600 + 23
    /\ Len(userLocationHistory) = 10
    /\ userLocationHistory[1].timestamp = (now - 9) * 1000
    /\ userLocationHistory[10].timestamp = now * 1000
    /\ Len(suspiciousActivityLog.incidents) = 20
    /\ suspiciousActivityLog.incidents[1].timestamp = (now - 19) * 1000
    /\ suspiciousActivityLog.incidents[20].timestamp = now * 1000

\* C29: a fraud record marked blocked always carries the time its block
\* ends: when the block is set, when it is set again after an earlier block
\* ran out or was cleared, and after clearUserWarnings.
C29_BlockedHasBlockUntil ==
    suspiciousActivityLog.isBlocked => suspiciousActivityLog.blockUntil # NoValue

\* C29 witness: the user is blocked again after waiting out an earlier block.
C29_Witness ==
    /\ evt.type = "validate"
    /\ evt.result.reasons = <<"BLOCKED_NOW">>
    /\ now >= 9 * 3600 + BLOCK_DURATION_MINUTES * 60
    /\ suspiciousActivityLog.isBlocked
    /\ suspiciousActivityLog.blockUntil = (now + BLOCK_DURATION_MINUTES * 60) * 1000

\* C30: every state getEmployeeCurrentState has computed has canEnter
\* exactly when the status is OUT, the valid entries of the day are below
\* the cap of 3, the hour of the computation lies in the work-day window
\* 6..22 and no action is pending; it has canExit exactly when the status is
\* IN and no action is pending; it never has both.
C30_CanEnterCanExitFollowState ==
    employeeStates.present =>
        \A hour \in {HourOf(employeeStates.cacheTime \div 1000)} :
            /\ employeeStates.canEnter <=>
                  /\ employeeStates.currentStatus = "OUT"
                  /\ employeeStates.todayEntries < 3
                  /\ hour >= 6 /\ hour <= 22
                  /\ employeeStates.pendingAction = "none"
            /\ employeeStates.canExit <=>
                  /\ employeeStates.currentStatus = "IN"
                  /\ employeeStates.pendingAction = "none"
            /\ ~(employeeStates.canEnter /\ employeeStates.canExit)

\* C30 witness: a state computed inside the window with status OUT, nothing
\* pending and the three entries of the day used up: canEnter is false.
C30_Witness ==
    /\ employeeStates.present
    /\ employeeStates.currentStatus = "OUT"
    /\ employeeStates.todayEntries = 3
    /\ employeeStates.isWorkingHours
    /\ employeeStates.pendingAction = "none"
    /\ ~employeeStates.canEnter
    /\ ~employeeStates.canExit

\* The speed in km/h of a segment of distance metres covered in elapsed
\* seconds exceeds the limit (a segment covered in no time is infinitely
\* fast, one covered backwards in time has a negative speed).
FasterThanLimit(distance, elapsed) ==
    IF elapsed < 0 THEN FALSE
    ELSE IF elapsed = 0 THEN distance > 0
    ELSE distance * 3600 > MAX_SPEED_BETWEEN_LOCATIONS * 1000 * elapsed

\* C31: for an analysed reading that, like the entry before it, carries its
\* capture time in epoch seconds, IMPOSSIBLE_SPEED is raised exactly when the
\* two entries are more than 1000 m apart and that distance over the seconds
\* elapsed between the two capture times exceeds 100 km/h.
C31_ImpossibleSpeedFromRealElapsedTime ==
    [][ ( /\ Analysed
          /\ Truthy(evt'.reading.timestamp)
          /\ Len(userLocationHistory) >= 1
          /\ userLocationHistory[Len(userLocationHistory)].timestamp <= now )
        => \A previous \in {userLocationHistory[Len(userLocationHistory)]} :
           \A distance \in {calculateDistance(previous.lat, previous.lng,
                                              evt'.reading.latitude,
                                              evt'.reading.longitude)} :
              HasFlag(evt'.result.suspiciousFlags, "IMPOSSIBLE_SPEED") <=>
                  /\ distance > 1000
                  /\ FasterThanLimit(distance,
                                     evt'.reading.timestamp - previous.timestamp)
      ]_vars

\* The VALID rows of the table, in insertion order.
ValidRecords == SelectSeq(attendance_records, LAMBDA r : r.validation_status = "VALID")

\* The user's last validated action lies less than MIN_TIME_BETWEEN_ACTIONS
\* minutes back.
ValidatedWithinGap ==
    /\ ValidRecords # <<>>
    /\ now - ValidRecords[Len(ValidRecords)].timestamp < 5 * 60

\* C32: an entrada or salida request made less than 5 minutes after the
\* user's last validated action is not allowed and marks no action pending.
C32_RequestWithinGapDenied ==
    (evt.type \in {"entrada", "salida"} /\ ValidatedWithinGap) =>
        /\ ~evt.validation.isAllowed
        /\ pendingAttendanceRequests = evt.pendingBefore

\* C33: the state a read returns, served from the cache or computed, shows
\* a pending action only if the session carries that action and it was
\* marked less than 10 minutes before the read.
C33_ReadNeverShowsExpiredPending ==
    \A state \in {ReadState} :
        state.pendingAction # "none" =>
            /\ employeeSessions.present
            /\ employeeSessions.pendingAction = state.pendingAction
            /\ now * 1000 - employeeSessions.pendingActionTime < 10 * 60 * 1000

\* The action of the most recent VALID row, "none" when there is none.
LastValidAction ==
    IF ValidRecords = <<>> THEN "none"
    ELSE ValidRecords[Len(ValidRecords)].action_type

\* C34: a VALID entrada row is written only when the most recent VALID row
\* is not an entrada, and a VALID salida row only when the most recent VALID
\* row is an entrada.
C34_ValidRecordsAlternate ==
    [][ \A before \in {LastValidAction} :
        \A written \in {LastValidAction'} :
            (Len(ValidRecords') > Len(ValidRecords)) =>
                /\ written = "entrada" => before # "entrada"
                /\ written = "salida" => before = "entrada"
      ]_vars

\* The VALID entrada rows of the current calendar day.
ValidEntriesToday ==
    SelectSeq(attendance_records, LAMBDA r :
        /\ r.action_type = "entrada" /\ r.validation_status = "VALID"
        /\ DayOf(r.timestamp) = DayOf(now))

\* C35: the VALID entrada rows of a calendar day never exceed the daily cap
\* of 3, whatever the commands and readings, handled one at a time, and
\* whichever reads of the store fail.
C35_DailyCapHolds == Len(ValidEntriesToday) <= 3

\* C36: a fraud record is marked blocked exactly when its warning count is
\* at least 5; a user who is not blocked has fewer than 5 warnings.
C36_BlockedIffWarningLimit ==
    FraudRecord.isBlocked <=> FraudRecord.warnings >= 5

\* C36 witness: a user whose first block was lifted has collected warnings
\* again and is blocked again, with 5 warnings or more.
C36_Witness ==
    /\ evt.type = "validate"
    /\ evt.result.reasons = <<"BLOCKED_NOW">>
    /\ ~evt.wasBlocked
    /\ Len(FraudRecord.incidents) >= 5
    /\ FraudRecord.isBlocked
    /\ FraudRecord.warnings >= 5

\* C37: a location run that gets past its first awaits while a request is
\* pending takes that request and leaves none behind, so that a second
\* location run of the user finds nothing pending and is answered so,
\* writing nothing; a row is written only by a run that took a request, one
\* row per run.
C37_OnePendingOneRecord ==
    [][ /\ \A i \in 1..Len(inFlight) :
             ( /\ inFlight[i].type = "location" /\ inFlight[i].pc = "logging"
               /\ Len(inFlight') = Len(inFlight)
               /\ inFlight'[i].pc # "logging" )
             => IF pendingAttendanceRequests # "none"
                THEN /\ inFlight'[i].pc = "saving"
                     /\ inFlight'[i].pendingAction = pendingAttendanceRequests
                     /\ pendingAttendanceRequests' = "none"
                ELSE /\ inFlight'[i].pc = "replying"
                     /\ inFlight'[i].reply = "NOTHING_PENDING"
                     /\ inFlight'[i].pendingAction = "none"
                     /\ attendance_records' = attendance_records
        /\ (attendance_records' # attendance_records) =>
             /\ Len(attendance_records') = Len(attendance_records) + 1
             /\ \E i \in 1..Len(inFlight) :
                   /\ inFlight[i].type = "location" /\ inFlight[i].pc = "saving"
                   /\ inFlight[i].pendingAction # "none"
                   /\ inFlight'[i].pc = "replying"
                   /\ attendance_records'[Len(attendance_records')].action_type
                         = inFlight[i].pendingAction
      ]_vars

\* C37 witness: two location runs in progress at once after one allowed
\* request: one has taken it and written the only row, the other has found
\* nothing pending.
C37_Witness ==
    /\ Len(attendance_records) = 1
    /\ pendingAttendanceRequests = "none"
    /\ \E i, j \in 1..Len(inFlight) :
          /\ i # j
          /\ inFlight[i].type = "location" /\ inFlight[j].type = "location"
          /\ inFlight[i].pc = "replying" /\ inFlight[i].reply = "REGISTERED"
          /\ inFlight[i].pendingAction # "none"
          /\ inFlight[j].pc = "replying" /\ inFlight[j].reply = "NOTHING_PENDING"

\* C38: on every state getEmployeeCurrentState has computed, canEnter means
\* that validateAttendanceAction allows an entrada on that state, and
\* canExit that it allows a salida.
C38_AvailabilityAgreesWithDecision ==
    employeeStates.present =>
        /\ employeeStates.canEnter =>
              DecideAttendanceAction(employeeStates, "entrada").isAllowed
        /\ employeeStates.canExit =>
              DecideAttendanceAction(employeeStates, "salida").isAllowed

\* C39: a verdict with isValid = true names a configured zone and a distance
\* that is the reading's distance to that zone and within its radius; every
\* VALID row of the table has a zone name and every INVALID row has none.
C39_ValidVerdictHasZone ==
    /\ (evt.type = "location" /\ evt.result.isValid) =>
          /\ evt.result.location \in 1..Len(AUTHORIZED_LOCATIONS)
          /\ evt.result.distance =
                ZoneDistance(evt.reading.latitude, evt.reading.longitude,
                             evt.result.location)
          /\ evt.result.distance <= AUTHORIZED_LOCATIONS[evt.result.location].radius
    /\ \A i \in 1..Len(attendance_records) :
          IF attendance_records[i].validation_status = "VALID"
          THEN attendance_records[i].location_name \in 1..Len(AUTHORIZED_LOCATIONS)
          ELSE /\ attendance_records[i].validation_status = "INVALID"
               /\ attendance_records[i].location_name = NoValue

\* C39 witness: the table holds a VALID row with its zone, and the location
\* just handled got a verdict that names a zone but is not valid: its row is
\* INVALID and has no zone name.
C39_Witness ==
    /\ evt.type = "location" /\ evt.dbOk
    /\ ~evt.result.isValid
    /\ evt.result.location # NoValue
    /\ Len(attendance_records) >= 2
    /\ attendance_records[1].validation_status = "VALID"
    /\ attendance_records[1].location_name = 1
    /\ attendance_records[Len(attendance_records)].validation_status = "INVALID"
    /\ attendance_records[Len(attendance_records)].location_name = NoValue
====
